---------------------------- MODULE Spec2Model ----------------------------
(***************************************************************************)
(* Price Sheet Bot: the document reconciliation engine.                    *)
(*                                                                         *)
(* Text is modelled as a sequence of one-character strings, so that the    *)
(* string operations of the source (strip, upper, substring search,        *)
(* formatting) are computed and not assumed.  A document is a sequence of  *)
(* tables, a table a sequence of rows, a row a sequence of cells; row and  *)
(* column indices are 0-based as in the source.                            *)
(*                                                                         *)
(* Three specifications share the module:                                  *)
(*   SpecWriter  write_to_template applied repeatedly to one document      *)
(*   SpecLock    concurrent invocations around the process lock            *)
(*   SpecSync    one run of sync_control_to_templates over the files       *)
(***************************************************************************)
EXTENDS Integers, Sequences, FiniteSets, TLC

\* ------------------------------------------------------------------------
\* Characters and strings
\* ------------------------------------------------------------------------

LowerChars == <<"a","b","c","d","e","f","g","h","i","j","k","l","m",
                "n","o","p","q","r","s","t","u","v","w","x","y","z">>
UpperChars == <<"A","B","C","D","E","F","G","H","I","J","K","L","M",
                "N","O","P","Q","R","S","T","U","V","W","X","Y","Z">>
DigitChars == <<"0","1","2","3","4","5","6","7","8","9">>

Range(f) == { f[i] : i \in DOMAIN f }

Lowers == Range(LowerChars)
Uppers == Range(UpperChars)
Digits == Range(DigitChars)
Letters == Lowers \cup Uppers
Spaces == {" ", "\t", "\n"}

IndexIn(c, seq) == CHOOSE i \in DOMAIN seq : seq[i] = c

\* str.upper() / str.lower() on one character
UpperChar(c) == IF c \in Lowers THEN UpperChars[IndexIn(c, LowerChars)] ELSE c
LowerChar(c) == IF c \in Uppers THEN LowerChars[IndexIn(c, UpperChars)] ELSE c
DigitVal(c) == IndexIn(c, DigitChars) - 1

Upper(s) == [i \in DOMAIN s |-> UpperChar(s[i])]
Lower(s) == [i \in DOMAIN s |-> LowerChar(s[i])]

\* s[a:b] of Python, 0-based, for 0 <= a <= b <= len(s)
Slice(s, a, b) == SubSeq(s, a + 1, b)
\* s[a:]
From(s, a) == SubSeq(s, a + 1, Len(s))

\* length of the longest prefix of s whose characters are all in class C
RECURSIVE PrefixLen(_, _)
PrefixLen(s, C) ==
    IF s = <<>> \/ Head(s) \notin C THEN 0 ELSE 1 + PrefixLen(Tail(s), C)

RECURSIVE SuffixLen(_, _)
SuffixLen(s, C) ==
    IF s = <<>> \/ s[Len(s)] \notin C THEN 0
    ELSE 1 + SuffixLen(SubSeq(s, 1, Len(s) - 1), C)

\* str.strip()
Strip(s) ==
    LET a == PrefixLen(s, Spaces)
    IN  IF a = Len(s) THEN <<>>
        ELSE Slice(s, a, Len(s) - SuffixLen(s, Spaces))

\* "sub in s"
Contains(s, sub) ==
    \E i \in 0..(Len(s) - Len(sub)) : Slice(s, i, i + Len(sub)) = sub

\* s.endswith(suf)
EndsWith(s, suf) ==
    Len(s) >= Len(suf) /\ From(s, Len(s) - Len(suf)) = suf

\* s.replace(old, ""), for a non-empty old: every non-overlapping occurrence,
\* left to right
RECURSIVE Remove(_, _)
Remove(s, old) ==
    IF Len(s) < Len(old) THEN s
    ELSE IF Slice(s, 0, Len(old)) = old THEN Remove(From(s, Len(old)), old)
    ELSE <<Head(s)>> \o Remove(Tail(s), old)

\* the characters of s that are in class C, in order
RECURSIVE Keep(_, _)
Keep(s, C) ==
    IF s = <<>> THEN <<>>
    ELSE (IF Head(s) \in C THEN <<Head(s)>> ELSE <<>>) \o Keep(Tail(s), C)

RECURSIVE Drop(_, _)
Drop(s, C) ==
    IF s = <<>> THEN <<>>
    ELSE (IF Head(s) \in C THEN <<>> ELSE <<Head(s)>>) \o Drop(Tail(s), C)

AllIn(s, C) == \A i \in DOMAIN s : s[i] \in C

\* int("0123") for a string of digits ("" gives 0)
RECURSIVE DigitsToNat(_)
DigitsToNat(s) ==
    IF s = <<>> THEN 0
    ELSE 10 * DigitsToNat(SubSeq(s, 1, Len(s) - 1)) + DigitVal(s[Len(s)])

\* str(n) for a natural number
RECURSIVE NatToDigits(_)
NatToDigits(n) ==
    IF n < 10 THEN <<DigitChars[n + 1]>>
    ELSE NatToDigits(n \div 10) \o <<DigitChars[(n % 10) + 1]>>

\* f"{n:02d}" and f"{n:04d}" for a natural number
PadLeft(ds, w) ==
    IF Len(ds) >= w THEN ds ELSE [i \in 1..(w - Len(ds)) |-> "0"] \o ds
Pad2(n) == PadLeft(NatToDigits(n), 2)
Pad4(n) == PadLeft(NatToDigits(n), 4)

\* ------------------------------------------------------------------------
\* utils.py
\* ------------------------------------------------------------------------

\* normalize_for_compare: str(value).strip().upper()
normalize_for_compare(value) == Upper(Strip(value))

\* re.sub(r"\s+", " ", s): every run of whitespace becomes one space
RECURSIVE CollapseSpaces(_)
CollapseSpaces(s) ==
    IF s = <<>> THEN <<>>
    ELSE IF Head(s) \in Spaces
         THEN <<" ">> \o CollapseSpaces(From(s, PrefixLen(s, Spaces)))
         ELSE <<Head(s)>> \o CollapseSpaces(Tail(s))

\* normalize_header: trim, uppercase, '-' and '_' to space, drop the other
\* punctuation ([^\w\s]), collapse whitespace
normalize_header(text) ==
    IF text = <<>> THEN <<>>
    ELSE LET s1 == Upper(Strip(text))
             s2 == [i \in DOMAIN s1 |->
                        IF s1[i] \in {"-", "_"} THEN " " ELSE s1[i]]
             s3 == Keep(s2, Letters \cup Digits \cup {"_"} \cup Spaces)
         IN  Strip(CollapseSpaces(s3))

sSITE == <<"S","I","T","E">>
sHOMESITE == <<"H","O","M","E","S","I","T","E">>
sHOME_SITE == <<"H","O","M","E"," ","S","I","T","E">>
sHS == <<"H","S">>
sPRICE == <<"P","R","I","C","E">>
sSALES_PRICE == <<"S","A","L","E","S"," ","P","R","I","C","E">>
sFINAL_PRICE == <<"F","I","N","A","L"," ","P","R","I","C","E">>
sADDRESS == <<"A","D","D","R","E","S","S">>
sPROPERTY_ADDRESS == <<"P","R","O","P","E","R","T","Y"," ","A","D","D","R","E","S","S">>
sREADY_BY == <<"R","E","A","D","Y"," ","B","Y">>
sREADYBY == <<"R","E","A","D","Y","B","Y">>
sREADY_BY_DATE == <<"R","E","A","D","Y"," ","B","Y"," ","D","A","T","E">>
sMOVE_IN == <<"M","O","V","E"," ","I","N">>
sMOVEIN == <<"M","O","V","E","I","N">>
sMOVE_IN_DATE == <<"M","O","V","E"," ","I","N"," ","D","A","T","E">>
sNOTES == <<"N","O","T","E","S">>
sNOTE == <<"N","O","T","E">>

\* the canonical field names, in the order of the alias table
Canonicals == <<"SITE", "PRICE", "ADDRESS", "READY BY", "NOTES">>

HEADER_ALIASES ==
    [c \in Range(Canonicals) |->
        CASE c = "SITE" -> {sSITE, sHOMESITE, sHOME_SITE, sHS}
          [] c = "PRICE" -> {sPRICE, sSALES_PRICE, sFINAL_PRICE}
          [] c = "ADDRESS" -> {sADDRESS, sPROPERTY_ADDRESS}
          [] c = "READY BY" -> {sREADY_BY, sREADYBY, sREADY_BY_DATE,
                                sMOVE_IN, sMOVEIN, sMOVE_IN_DATE}
          [] c = "NOTES" -> {sNOTES, sNOTE}]

REQUIRED_HEADERS == <<"SITE", "PRICE", "READY BY">>

\* resolve_header: the first canonical name whose aliases hold the text, or
\* "none"
resolve_header(normalized) ==
    LET hits == { i \in DOMAIN Canonicals :
                      normalized \in HEADER_ALIASES[Canonicals[i]] }
    IN  IF hits = {} THEN "none"
        ELSE Canonicals[CHOOSE i \in hits : \A j \in hits : i <= j]

\* canonical name -> 0-based column of its last occurrence
build_header_map_last(cells) ==
    LET canon(i) == resolve_header(normalize_header(cells[i]))
        found == { canon(i) : i \in DOMAIN cells } \ {"none"}
    IN  [c \in found |->
            (CHOOSE i \in DOMAIN cells :
                 /\ canon(i) = c
                 /\ \A j \in DOMAIN cells : canon(j) = c => i >= j) - 1]

\* build_header_map: canonical name -> 0-based column of its first occurrence
build_header_map(cells) ==
    LET canon(i) == resolve_header(normalize_header(cells[i]))
        found == { canon(i) : i \in DOMAIN cells } \ {"none"}
    IN  [c \in found |->
            (CHOOSE i \in DOMAIN cells :
                 /\ canon(i) = c
                 /\ \A j \in DOMAIN cells : canon(j) = c => i <= j) - 1]

\* validate_headers: the required headers that are missing (strict is unused)
validate_headers(header_map, strict) ==
    { REQUIRED_HEADERS[i] : i \in DOMAIN REQUIRED_HEADERS } \ DOMAIN header_map

\* float(s) succeeds: [sign] digits [. digits] or [sign] . digits
\* (no exponent, underscore, inf or nan occurs in the values enumerated here)
Unsigned(s) == IF s # <<>> /\ Head(s) \in {"-", "+"} THEN Tail(s) ELSE s
IsFloat(s) ==
    LET u == Unsigned(s)
        a == PrefixLen(u, Digits)
        r == From(u, a)
    IN  \/ a > 0 /\ r = <<>>
        \/ /\ r # <<>>
           /\ Head(r) = "."
           /\ AllIn(Tail(r), Digits)
           /\ (a > 0 \/ Len(r) > 1)
\* |int(float(s))|, the sign, and whether float(s) has a fraction
FloatIntPart(s) == DigitsToNat(Slice(Unsigned(s), 0, PrefixLen(Unsigned(s), Digits)))
FloatNegative(s) == s # <<>> /\ Head(s) = "-"
FloatHasFraction(s) ==
    LET u == Unsigned(s)
        r == From(u, PrefixLen(u, Digits))
    IN  r # <<>> /\ \E i \in DOMAIN Tail(r) : Tail(r)[i] # "0"

\* f"{n:,}" on the digits of n
RECURSIVE Group3(_)
Group3(ds) ==
    IF Len(ds) <= 3 THEN ds
    ELSE Group3(SubSeq(ds, 1, Len(ds) - 3)) \o <<",">> \o From(ds, Len(ds) - 3)

\* float(s) is infinite, so that int(float(s)) raises OverflowError, which
\* format_price does not catch
FloatOverflows(s) ==
    Lower(Unsigned(s)) \in { <<"i","n","f">>, <<"i","n","f","i","n","i","t","y">> }

\* format_price raises instead of returning
format_price_raises(value) ==
    /\ Strip(value) # <<>>
    /\ FloatOverflows(Strip(Drop(Strip(value), {"$", ","})))

\* format_price: "$1,234,567", no decimals; "" for blank; the stripped value
\* itself when it is no number
format_price(value) ==
    IF Strip(value) = <<>> THEN <<>>
    ELSE LET s == Strip(Drop(Strip(value), {"$", ","}))
         IN  IF IsFloat(s)
             THEN <<"$">>
                  \o (IF FloatNegative(s) /\ FloatIntPart(s) > 0 THEN <<"-">> ELSE <<>>)
                  \o Group3(NatToDigits(FloatIntPart(s)))
             ELSE Strip(value)

_MONTH_NAMES ==
    {
       <<<<"j","a","n","u","a","r","y">>, 1>>,
       <<<<"f","e","b","r","u","a","r","y">>, 2>>,
       <<<<"m","a","r","c","h">>, 3>>,
       <<<<"a","p","r","i","l">>, 4>>,
       <<<<"m","a","y">>, 5>>,
       <<<<"j","u","n","e">>, 6>>,
       <<<<"j","u","l","y">>, 7>>,
       <<<<"a","u","g","u","s","t">>, 8>>,
       <<<<"s","e","p","t","e","m","b","e","r">>, 9>>,
       <<<<"o","c","t","o","b","e","r">>, 10>>,
       <<<<"n","o","v","e","m","b","e","r">>, 11>>,
       <<<<"d","e","c","e","m","b","e","r">>, 12>>,
       <<<<"j","a","n">>, 1>>,
       <<<<"f","e","b">>, 2>>,
       <<<<"m","a","r">>, 3>>,
       <<<<"a","p","r">>, 4>>,
       <<<<"j","u","n">>, 6>>,
       <<<<"j","u","l">>, 7>>,
       <<<<"a","u","g">>, 8>>,
       <<<<"s","e","p">>, 9>>,
       <<<<"s","e","p","t">>, 9>>,
       <<<<"o","c","t">>, 10>>,
       <<<<"n","o","v">>, 11>>,
       <<<<"d","e","c">>, 12>>
    }
\* _MONTH_NAMES.get(name): the month number, 0 for None
MonthNum(name) ==
    IF \E e \in _MONTH_NAMES : e[1] = name
    THEN (CHOOSE e \in _MONTH_NAMES : e[1] = name)[2]
    ELSE 0

\* SHEETS_EPOCH + timedelta(days=n), as <<year, month, day>> (proleptic
\* Gregorian calendar; SHEETS_EPOCH = 1899-12-30 is day 693899 of the
\* calendar that starts on 0000-03-01)
SHEETS_EPOCH_DAYS == 693899
SerialToDate(n) ==
    LET z == n + SHEETS_EPOCH_DAYS
        era == z \div 146097
        doe == z - era * 146097
        yoe == (doe - doe \div 1460 + doe \div 36524 - doe \div 146096) \div 365
        doy == doe - (365 * yoe + yoe \div 4 - yoe \div 100)
        mp == (5 * doy + 2) \div 153
        d == doy - (153 * mp + 2) \div 5 + 1
        m == IF mp < 10 THEN mp + 3 ELSE mp - 9
        y == yoe + era * 400 + (IF m <= 2 THEN 1 ELSE 0)
    IN  <<y, m, d>>

\* ^(\d{1,2})/(\d{1,2})/(\d{4})$  and  ^(\d{4})-(\d{1,2})-(\d{1,2})$ :
\* three digit groups of the given lengths around a separator; <<>> if no match
ThreeGroups(s, sep, w1, w2, w3) ==
    LET a == PrefixLen(s, Digits)
        r1 == From(s, a)
        b == IF r1 # <<>> THEN PrefixLen(Tail(r1), Digits) ELSE 0
        r2 == IF r1 # <<>> THEN From(Tail(r1), b) ELSE <<>>
        c == IF r2 # <<>> THEN PrefixLen(Tail(r2), Digits) ELSE 0
    IN  IF /\ a \in w1 /\ r1 # <<>> /\ Head(r1) = sep
           /\ b \in w2 /\ r2 # <<>> /\ Head(r2) = sep
           /\ c \in w3 /\ Len(r2) = 1 + c
        THEN <<DigitsToNat(Slice(s, 0, a)),
               DigitsToNat(Slice(Tail(r1), 0, b)),
               DigitsToNat(Tail(r2))>>
        ELSE <<>>

\* ^([A-Za-z]+)\s+(\d{1,2}),?\s+(\d{4})$ : <<month name, day, year>> or <<>>
MonthDayYear(s) ==
    LET a == PrefixLen(s, Letters)
        r1 == From(s, a)
        w1 == PrefixLen(r1, Spaces)
        r2 == From(r1, w1)
        b == PrefixLen(r2, Digits)
        r3 == From(r2, b)
        r4 == IF r3 # <<>> /\ Head(r3) = "," THEN Tail(r3) ELSE r3
        w2 == PrefixLen(r4, Spaces)
        r5 == From(r4, w2)
    IN  IF a >= 1 /\ w1 >= 1 /\ b \in {1, 2} /\ w2 >= 1
           /\ Len(r5) = 4 /\ AllIn(r5, Digits)
        THEN <<Lower(Slice(s, 0, a)), DigitsToNat(Slice(r2, 0, b)), DigitsToNat(r5)>>
        ELSE <<>>

\* ^([A-Za-z]+),?\s+(\d{4})$ : <<month name, year>> or <<>>
MonthYear(s) ==
    LET a == PrefixLen(s, Letters)
        r1 == From(s, a)
        r2 == IF r1 # <<>> /\ Head(r1) = "," THEN Tail(r1) ELSE r1
        w == PrefixLen(r2, Spaces)
        r3 == From(r2, w)
    IN  IF a >= 1 /\ w >= 1 /\ Len(r3) = 4 /\ AllIn(r3, Digits)
        THEN <<Lower(Slice(s, 0, a)), DigitsToNat(r3)>>
        ELSE <<>>

\* parse_ready_by: MM/DD/YYYY zero-padded, or the stripped value itself
parse_ready_by(value) ==
    LET s == Strip(value)
        serialOk == /\ IsFloat(s)
                    /\ ~FloatNegative(s)
                    /\ (FloatIntPart(s) > 1
                        \/ (FloatIntPart(s) = 1 /\ FloatHasFraction(s)))
                    /\ FloatIntPart(s) < 200000
        mdy == ThreeGroups(s, "/", {1, 2}, {1, 2}, {4})
        ymd == ThreeGroups(s, "-", {4}, {1, 2}, {1, 2})
        mDY == MonthDayYear(s)
        mY == MonthYear(s)
    IN  IF s = <<>> THEN <<>>
        ELSE IF serialOk
        THEN LET d == SerialToDate(FloatIntPart(s))
             IN  Pad2(d[2]) \o <<"/">> \o Pad2(d[3]) \o <<"/">> \o Pad4(d[1])
        ELSE IF mdy # <<>>
        THEN Pad2(mdy[1]) \o <<"/">> \o Pad2(mdy[2]) \o <<"/">> \o NatToDigits(mdy[3])
        ELSE IF ymd # <<>>
        THEN Pad2(ymd[2]) \o <<"/">> \o Pad2(ymd[3]) \o <<"/">> \o NatToDigits(ymd[1])
        ELSE IF mDY # <<>> /\ MonthNum(mDY[1]) # 0
        THEN Pad2(MonthNum(mDY[1])) \o <<"/">> \o Pad2(mDY[2]) \o <<"/">> \o NatToDigits(mDY[3])
        ELSE IF mY # <<>> /\ MonthNum(mY[1]) # 0
        THEN Pad2(MonthNum(mY[1])) \o <<"/">> \o <<"0", "1">> \o <<"/">> \o NatToDigits(mY[2])
        ELSE s

\* ------------------------------------------------------------------------
\* Documents (python-docx): a cell carries its text and the formatting the
\* writer sets: font colour, cell shading, alignment
\* ------------------------------------------------------------------------

Cell(t) == [text |-> t, color |-> "auto", fill |-> "none", align |-> "default"]

\* table.rows[i] for a 0-based index; a negative index counts from the end,
\* as Python's does
RowAt(table, i) == IF i < 0 THEN table[Len(table) + i + 1] ELSE table[i + 1]

\* the 0-based position a (possibly negative) Python index denotes
PyIndex(table, i) == IF i < 0 THEN Len(table) + i ELSE i

\* the 0-based indices range(a, b)
PyRange(a, b) == { i \in a..(b - 1) : TRUE }

\* the least element of a non-empty set of integers
Min(S) == CHOOSE x \in S : \A y \in S : x <= y

\* ------------------------------------------------------------------------
\* locator.py
\* ------------------------------------------------------------------------

AlphaNum == Letters \cup Digits

\* a search for the core with nothing asked of the character after it
PrefixMatchLoose(text, core) ==
    \E i \in 0..(Len(text) - Len(core)) : Slice(text, i, i + Len(core)) = core

\* re.search(re.escape(core) + r"(?![A-Za-z0-9])", text)
PrefixMatch(text, core) ==
    \E i \in 0..(Len(text) - Len(core)) :
        /\ Slice(text, i, i + Len(core)) = core
        /\ (i + Len(core) = Len(text) \/ text[i + Len(core) + 1] \notin AlphaNum)

\* the cells <<table, row, col>> (0-based) of the document, as the scan of the
\* tables, rows and cells meets them
AllCells(doc) ==
    UNION { UNION { { <<t - 1, r - 1, c - 1>> : c \in DOMAIN doc[t][r] } :
                    r \in DOMAIN doc[t] } : t \in DOMAIN doc }

CellText(doc, m) == doc[m[1] + 1][m[2] + 1][m[3] + 1].text

ScanBefore(a, b) ==
    \/ a[1] < b[1]
    \/ a[1] = b[1] /\ a[2] < b[2]
    \/ a[1] = b[1] /\ a[2] = b[2] /\ a[3] <= b[3]

\* the cells whose text holds the code exactly (first scan)
ExactMatches(doc, invisible_code) ==
    { m \in AllCells(doc) : Contains(CellText(doc, m), invisible_code) }

\* the fallback scan, run when the first found nothing and the code ends "]]"
FallbackMatches(doc, invisible_code) ==
    { m \in AllCells(doc) :
        PrefixMatch(CellText(doc, m), Slice(invisible_code, 0, Len(invisible_code) - 2)) }

AllMatches(doc, invisible_code, exact) ==
    IF exact = {} /\ EndsWith(invisible_code, <<"]", "]">>)
    THEN FallbackMatches(doc, invisible_code)
    ELSE exact

\* the match the scan met last
LastMatch(matches) == CHOOSE m \in matches : \A n \in matches : ScanBefore(n, m)

FirstMatch(matches) == CHOOSE m \in matches : \A n \in matches : ScanBefore(m, n)

\* the TableMatch of a list of matches, or the ValueError raised
TableMatch(matches, first) ==
    IF matches = {}
    THEN [raised |-> TRUE, error |-> "NOT FOUND"]
    ELSE IF Cardinality({ m[1] : m \in matches }) > 1
    THEN [raised |-> TRUE, error |-> "MULTIPLE tables"]
    ELSE [raised |-> FALSE, error |-> "",
          table_index |-> first[1], cell_row |-> first[2], cell_col |-> first[3]]

MatchOf(matches) == TableMatch(matches, IF matches = {} THEN <<>> ELSE FirstMatch(matches))

find_table_by_invisible_code(doc, invisible_code) ==
    IF invisible_code = <<>>
    THEN [raised |-> TRUE, error |-> "empty"]
    ELSE MatchOf(AllMatches(doc, invisible_code, ExactMatches(doc, invisible_code)))

\* remove_invisible_code on the text of the matched cell (one run): the exact
\* code, then its prefix without the closing brackets, then a stray "]]"
RemoveIfIn(text, code) == IF Contains(text, code) THEN Remove(text, code) ELSE text

ClearStray(text) == IF Strip(text) = <<"]", "]">> THEN <<>> ELSE text

RemoveCodeFromText(text, invisible_code) ==
    IF EndsWith(invisible_code, <<"]", "]">>)
    THEN ClearStray(RemoveIfIn(RemoveIfIn(text, invisible_code),
                               Slice(invisible_code, 0, Len(invisible_code) - 2)))
    ELSE ClearStray(RemoveIfIn(text, invisible_code))

remove_invisible_code(doc, table_match, invisible_code) ==
    [doc EXCEPT ![table_match.table_index + 1][table_match.cell_row + 1][table_match.cell_col + 1].text =
        RemoveCodeFromText(@, invisible_code)]

\* ------------------------------------------------------------------------
\* docx_writer.py
\* ------------------------------------------------------------------------

_get_cell_texts(table, row_index) ==
    IF row_index >= Len(table) THEN <<>>
    ELSE [c \in DOMAIN RowAt(table, row_index) |->
              Strip(RowAt(table, row_index)[c].text)]

_set_cell_text(table, row_index, col_index, value) ==
    IF row_index >= Len(table) THEN table
    ELSE [table EXCEPT ![PyIndex(table, row_index) + 1][col_index + 1].text = value]

CellsBlank(cells, header_map) ==
    \A k \in DOMAIN header_map :
        ~(header_map[k] < Len(cells) /\ Strip(cells[header_map[k] + 1]) # <<>>)

_is_row_blank(table, row_index, header_map) ==
    IF row_index >= Len(table) THEN TRUE
    ELSE CellsBlank(_get_cell_texts(table, row_index), header_map)

\* a scan that never finds the unit
_find_no_site_rows(table, header_map, homesite, data_start) == {}

\* the 0-based indices of the rows from data_start whose SITE cell equals the
\* homesite (the source's list, ascending)
_find_existing_site_rows(table, header_map, homesite, data_start) ==
    IF "SITE" \notin DOMAIN header_map THEN {}
    ELSE { r \in PyRange(data_start, Len(table)) :
             /\ header_map["SITE"] < Len(_get_cell_texts(table, r))
             /\ normalize_for_compare(_get_cell_texts(table, r)[header_map["SITE"] + 1])
                    = normalize_for_compare(homesite) }

MinOr(S, none) == IF S = {} THEN none ELSE Min(S)

\* a scan that never finds a blank row
_find_no_blank_row(table, header_map, data_start) == -1

_find_next_blank_row(table, header_map, data_start) ==
    MinOr({ r \in PyRange(data_start, Len(table)) : _is_row_blank(table, r, header_map) }, -1)

\* _add_row_to_table: a clone of the last row (cell count, shading, alignment)
\* with its runs, and so its text and font colour, removed
_add_row_to_table(table) ==
    Append(table,
           [c \in DOMAIN table[Len(table)] |->
                [table[Len(table)][c] EXCEPT !.text = <<>>, !.color = "auto"]])

sSold == <<"s","o","l","d">>
sUpgradedFlooring == <<"u","p","g","r","a","d","e","d"," ","f","l","o","o","r","i","n","g">>

\* the phrases looked for in the other order
StyleOfFlooringFirst(notes_lower) ==
    IF Contains(notes_lower, sUpgradedFlooring) THEN "upgraded_flooring"
    ELSE IF Contains(notes_lower, sSold) THEN "sold"
    ELSE "normal"

StyleOf(notes_lower) ==
    IF Contains(notes_lower, sSold) THEN "sold"
    ELSE IF Contains(notes_lower, sUpgradedFlooring) THEN "upgraded_flooring"
    ELSE "normal"

_determine_row_style(notes) == StyleOf(Lower(Strip(notes)))

HEX_PURPLE == "7030A0"

\* the formatting _apply_row_formatting gives the cell in column col_idx
\* (0-based) of a row whose style is `style`
StyledCell(cell, style, col_idx, notes_col) ==
    IF style = "sold"
    THEN [cell EXCEPT !.color = "red", !.fill = "none", !.align = "center"]
    ELSE IF style = "upgraded_flooring" /\ col_idx = notes_col
    THEN [cell EXCEPT !.color = "white", !.fill = HEX_PURPLE, !.align = "center"]
    ELSE [cell EXCEPT !.color = "black", !.fill = "none", !.align = "center"]

StyledRow(row, style, notes_col) ==
    [c \in DOMAIN row |-> StyledCell(row[c], style, c - 1, notes_col)]

_apply_row_formatting(table, row_index, notes, header_map) ==
    IF row_index >= Len(table) THEN table
    ELSE [table EXCEPT ![PyIndex(table, row_index) + 1] =
             StyledRow(@, _determine_row_style(notes),
                       IF "NOTES" \in DOMAIN header_map THEN header_map["NOTES"] ELSE -1)]

\* set the cell of a canonical field, when the header map has it
SetField(table, row_index, header_map, name, value) ==
    IF name \in DOMAIN header_map
    THEN _set_cell_text(table, row_index, header_map[name], value)
    ELSE table

_write_row(table, row_index, header_map, control) ==
    _apply_row_formatting(
        SetField(
          SetField(
            SetField(
              SetField(
                SetField(table, row_index, header_map, "SITE", control.homesite),
                row_index, header_map, "PRICE", format_price(control.price)),
              row_index, header_map, "ADDRESS", control.address),
            row_index, header_map, "READY BY", parse_ready_by(control.ready_by)),
          row_index, header_map, "NOTES", control.notes),
        row_index, control.notes, header_map)

\* a blank test that takes every mapped cell for blank
_is_blank_always(cells, header_map, col_name) == col_name \in DOMAIN header_map

\* _is_blank of _fill_blank_cells, on the cell texts read before any write
_is_blank(cells, header_map, col_name) ==
    IF col_name \notin DOMAIN header_map THEN FALSE
    ELSE \/ header_map[col_name] >= Len(cells)
         \/ Strip(cells[header_map[col_name] + 1]) = <<>>

\* one `if _is_blank(name): _set_cell_text(...)` of _fill_blank_cells
FillField(table, row_index, header_map, cells, name, value, allowed) ==
    IF allowed /\ _is_blank(cells, header_map, name)
    THEN SetField(table, row_index, header_map, name, value)
    ELSE table

FillFields(table, row_index, header_map, control, allow_price_update, cells) ==
    FillField(
      FillField(
        FillField(
          FillField(table, row_index, header_map, cells, "ADDRESS", control.address, TRUE),
          row_index, header_map, cells, "READY BY", parse_ready_by(control.ready_by), TRUE),
        row_index, header_map, cells, "NOTES", control.notes, TRUE),
      row_index, header_map, cells, "PRICE", format_price(control.price), allow_price_update)

_fill_blank_cells(table, row_index, header_map, control, allow_price_update) ==
    _apply_row_formatting(
        FillFields(table, row_index, header_map, control, allow_price_update,
                   _get_cell_texts(table, row_index)),
        row_index, control.notes, header_map)

\* None in place of bytes: no document (every document has a table)
NoDoc == <<>>

\* a DocxWriteResult with the bytes returned beside it; raised is the
\* ValueError of the locator, which write_to_template does not catch
WriteResult(raised, bytes, action, row_index, error) ==
    [raised |-> raised, bytes |-> bytes, action |-> action,
     row_index |-> row_index, error |-> error]

\* the keyword arguments of write_to_template
Policy(overwrite_existing, update_only_blank_cells, allow_price_update, strict_mode, remove_code) ==
    [overwrite_existing |-> overwrite_existing,
     update_only_blank_cells |-> update_only_blank_cells,
     allow_price_update |-> allow_price_update,
     strict_mode |-> strict_mode, remove_code |-> remove_code]

\* the document saved with the table replaced, the code removed if asked
SaveDoc(doc_bytes, table_match, invisible_code, remove_code, new_table) ==
    IF remove_code
    THEN remove_invisible_code([doc_bytes EXCEPT ![table_match.table_index + 1] = new_table],
                               table_match, invisible_code)
    ELSE [doc_bytes EXCEPT ![table_match.table_index + 1] = new_table]

\* the append branch: the next blank row, or a row added at the end
AppendAt(doc_bytes, table_match, invisible_code, control_row, policy, table, header_map, blank_row) ==
    IF blank_row < 0
    THEN WriteResult(FALSE,
             SaveDoc(doc_bytes, table_match, invisible_code, policy.remove_code,
                     _write_row(_add_row_to_table(table), Len(table), header_map, control_row)),
             "appended", Len(table), "")
    ELSE WriteResult(FALSE,
             SaveDoc(doc_bytes, table_match, invisible_code, policy.remove_code,
                     _write_row(table, blank_row, header_map, control_row)),
             "appended", blank_row, "")

\* the existing-row branches, on the first existing row
UpdateAt(doc_bytes, table_match, invisible_code, control_row, policy, table, header_map, target_row) ==
    IF policy.overwrite_existing
    THEN WriteResult(FALSE,
             SaveDoc(doc_bytes, table_match, invisible_code, policy.remove_code,
                     _write_row(table, target_row, header_map, control_row)),
             "overwritten", target_row, "")
    ELSE IF policy.update_only_blank_cells
    THEN WriteResult(FALSE,
             SaveDoc(doc_bytes, table_match, invisible_code, policy.remove_code,
                     _fill_blank_cells(table, target_row, header_map, control_row,
                                       policy.allow_price_update)),
             "updated_blanks", target_row, "")
    ELSE WriteResult(FALSE, NoDoc, "duplicate_site_same_table", -1, "site already exists")

\* the same without the duplicate check of strict mode
WriteRowsLenient(doc_bytes, table_match, invisible_code, control_row, policy, table, header_map, data_start, existing_rows) ==
    IF existing_rows # {}
    THEN UpdateAt(doc_bytes, table_match, invisible_code, control_row, policy,
                  table, header_map, Min(existing_rows))
    ELSE AppendAt(doc_bytes, table_match, invisible_code, control_row, policy,
                  table, header_map, _find_next_blank_row(table, header_map, data_start))

\* from the duplicate check on, with the existing rows found
WriteRows(doc_bytes, table_match, invisible_code, control_row, policy, table, header_map, data_start, existing_rows) ==
    IF Cardinality(existing_rows) > 1 /\ policy.strict_mode
    THEN WriteResult(FALSE, NoDoc, "duplicate_site_rows_in_table", -1, "duplicate site")
    ELSE IF existing_rows # {}
    THEN UpdateAt(doc_bytes, table_match, invisible_code, control_row, policy,
                  table, header_map, Min(existing_rows))
    ELSE AppendAt(doc_bytes, table_match, invisible_code, control_row, policy,
                  table, header_map, _find_next_blank_row(table, header_map, data_start))

\* from the header validation on, with the header map built
WriteHeaders(doc_bytes, table_match, invisible_code, control_row, policy, table, header_map, data_start) ==
    IF validate_headers(header_map, policy.strict_mode) # {}
    THEN WriteResult(FALSE, NoDoc, "", -1, "missing required headers")
    ELSE WriteRows(doc_bytes, table_match, invisible_code, control_row, policy,
                   table, header_map, data_start,
                   _find_existing_site_rows(table, header_map, control_row.homesite, data_start))

\* from the located table on; table.rows[header_idx] with an index below
\* -len(table.rows) raises IndexError, which nothing here catches
WriteTable(doc_bytes, table_match, invisible_code, control_row, policy, table, header_idx) ==
    IF header_idx >= Len(table)
    THEN WriteResult(FALSE, NoDoc, "", -1, "header row beyond table size")
    ELSE IF header_idx < 0 - Len(table)
    THEN WriteResult(TRUE, NoDoc, "", -1, "IndexError")
    ELSE WriteHeaders(doc_bytes, table_match, invisible_code, control_row, policy, table,
                      build_header_map(_get_cell_texts(table, header_idx)), header_idx + 1)

WriteMatch(doc_bytes, table_match, invisible_code, control_row, policy, header_row_1based) ==
    IF table_match.raised
    THEN WriteResult(TRUE, NoDoc, "", -1, table_match.error)
    ELSE WriteTable(doc_bytes, table_match, invisible_code, control_row, policy,
                    doc_bytes[table_match.table_index + 1], header_row_1based - 1)

write_to_template(doc_bytes, invisible_code, control_row, overwrite_existing, update_only_blank_cells, allow_price_update, strict_mode, remove_code, header_row_1based) ==
    WriteMatch(doc_bytes, find_table_by_invisible_code(doc_bytes, invisible_code),
               invisible_code, control_row,
               Policy(overwrite_existing, update_only_blank_cells, allow_price_update,
                      strict_mode, remove_code),
               header_row_1based)

\* ------------------------------------------------------------------------
\* Data of the scenarios: header texts, unit ids, notes, addresses, prices,
\* dates and invisible codes, as the character sequences the code handles
\* ------------------------------------------------------------------------

tSite == <<"S","i","t","e">>
tPrice == <<"P","r","i","c","e">>
tAddress == <<"A","d","d","r","e","s","s">>
tReadyBy == <<"R","e","a","d","y","-","B","y">>
tNotes == <<"N","o","t","e","s">>
u12 == <<"1","2">>
u28 == <<"2","8">>
u7 == <<"7">>
nUnitSold == <<"u","n","i","t"," ","s","o","l","d">>
nSOLD == <<"S","O","L","D">>
nFloor == <<"U","p","g","r","a","d","e","d"," ","F","l","o","o","r","i","n","g">>
nView == <<"V","i","e","w">>
aElm == <<"1"," ","E","l","m">>
aOak == <<"2"," ","O","a","k">>
p1045990 == <<"1","0","4","5","9","9","0">>
pFmt900 == <<"$","9","0","0",",","0","0","0">>
p875000 == <<"8","7","5","0","0","0">>
d492026 == <<"4","/","9","/","2","0","2","6">>
dIso == <<"2","0","2","6","-","0","4","-","0","9">>
dFmt == <<"0","4","/","0","9","/","2","0","2","6">>
mkP1 == <<"[","[","P","1","]","]">>
mkP2 == <<"[","[","P","2","]","]">>
mkP3 == <<"[","[","P","3","]","]">>
cNOVA == <<"N","O","V","A">>
cISLA == <<"I","S","L","A">>
fP1 == <<"P","1">>
fP2 == <<"P","2">>
fP3 == <<"P","3">>
fP9 == <<"P","9">>

\* a ControlRow (control_parser.py): the fields the engine reads
ControlRow(community, homesite, floorplan, price, address, ready_by, notes) ==
    [community |-> community, homesite |-> homesite, floorplan |-> floorplan,
     price |-> price, address |-> address, ready_by |-> ready_by, notes |-> notes]

\* MappingRow.header_row: 1-based, default 2
DefaultHeaderRow == 2

TextRow(texts) == [i \in DOMAIN texts |-> Cell(texts[i])]

HeaderRow == TextRow(<<tSite, tPrice, tAddress, tReadyBy, tNotes>>)
BlankRow == TextRow(<<<<>>, <<>>, <<>>, <<>>, <<>>>>)
TitleRow(code) == TextRow(<<code, <<>>, <<>>, <<>>, <<>>>>)

\* a data row as an earlier write left it: the texts, styled from its notes
WrittenRow(texts) ==
    [c \in DOMAIN texts |-> StyledCell(Cell(texts[c]), _determine_row_style(texts[5]), c - 1, 4)]

\* a pristine template table: the title row carrying the invisible code, the
\* header row, one blank data row
PristineTable(code) == <<TitleRow(code), HeaderRow, BlankRow>>

\* ------------------------------------------------------------------------
\* The writer on one document: successive write_to_template calls, the
\* caller carrying forward the bytes of each successful write
\* ------------------------------------------------------------------------

\* the writer's document, its last call, the number of calls
VARIABLES doc, last, writes
\* the lock file and clock; the last acquire_lock call; per invocation: its
\* position, command, whether it found new PDFs, holds the lock, aborted, and
\* what it has done
VARIABLES lock_file, now, ticks, acq, pc, kind, new_pdfs, holder, aborted, log
\* the sync run: the CONTROL rows, the Drive folders (pristine templates, final
\* documents and these as the run found them), the certifications and
\* configuration, the run's position, files still to do, counters and
\* per-file outcomes
VARIABLES control_rows, templates, finals, finals0, certs, allow_uncertified_templates, dry_run, spc, queue, result, outcome

\* the last call of a pure function: its arguments and what it returned
VARIABLES call
\* PDF processing: the configuration flags, the manifest, the final folder,
\* every document ever uploaded to it, the PDFs of the New Releases folder
\* (where each is and its appProperties), the runs made, and what the last
\* run did template by template
VARIABLES cfg, manifest, final_folder, uploads, pdf_files, runs, released

wvars == <<doc, last, writes>>
lvars == <<lock_file, now, ticks, acq, pc, kind, new_pdfs, holder, aborted, log>>
svars == <<control_rows, templates, finals, finals0, certs, allow_uncertified_templates, dry_run, spc, queue, result, outcome>>
rvars == <<cfg, manifest, final_folder, uploads, pdf_files, runs, released>>
xvars == <<call, rvars>>
vars == <<wvars, lvars, svars, xvars>>

MaxWrites == 2

WriterRecords ==
    { ControlRow(cNOVA, u12, fP2, p1045990, aElm, d492026, <<>>),
      ControlRow(cNOVA, u12, fP2, p875000, aOak, <<>>, nFloor),
      ControlRow(cNOVA, u12, fP2, <<>>, <<>>, dIso, nUnitSold),
      ControlRow(cNOVA, u7, fP2, p875000, aOak, dIso, nSOLD) }

\* the flag combinations the callers pass: the configuration defaults
\* (config.py), blank-fill with price updates allowed, neither overwrite nor
\* blank-fill, and the flags of sync_control_to_templates
ConfigDefaults == Policy(FALSE, TRUE, FALSE, TRUE, TRUE)
SyncPolicy == Policy(TRUE, FALSE, TRUE, FALSE, FALSE)

WriterPolicies ==
    { ConfigDefaults,
      Policy(FALSE, TRUE, TRUE, FALSE, FALSE),
      Policy(FALSE, FALSE, FALSE, TRUE, FALSE),
      SyncPolicy }

WriterDocs ==
    { <<PristineTable(mkP2)>>,
      << <<TitleRow(mkP2), HeaderRow,
           WrittenRow(<<u12, pFmt900, <<>>, <<>>, nSOLD>>), BlankRow>> >>,
      << <<TitleRow(mkP2), HeaderRow,
           WrittenRow(<<u12, <<>>, aElm, <<>>, <<>>>>)>> >>,
      << <<TitleRow(mkP2), HeaderRow,
           WrittenRow(<<u7, pFmt900, aElm, dFmt, nView>>),
           WrittenRow(<<u7, <<>>, <<>>, <<>>, <<>>>>)>> >> }

NoCall == [called |-> FALSE]

\* the writer at rest, in the runs of the other specifications
WriterIdle ==
    /\ doc = NoDoc
    /\ last = NoCall
    /\ writes = 0

WriterInit ==
    /\ doc \in WriterDocs
    /\ last = NoCall
    /\ writes = 0

\* one call write_to_template(current_bytes, code, crow, ...) and the caller's
\* `if new_bytes: current_bytes = new_bytes`
WriteCall(control_row, policy) ==
    /\ writes < MaxWrites
    /\ writes' = writes + 1
    /\ last' = [called |-> TRUE, before |-> doc, control |-> control_row,
                policy |-> policy,
                prior |-> IF last.called
                          THEN [written |-> last.result.bytes # NoDoc,
                                control |-> last.control]
                          ELSE [written |-> FALSE, control |-> control_row],
                result |-> write_to_template(doc, mkP2, control_row,
                               policy.overwrite_existing, policy.update_only_blank_cells,
                               policy.allow_price_update, policy.strict_mode,
                               policy.remove_code, DefaultHeaderRow)]
    /\ doc' = IF last'.result.bytes # NoDoc THEN last'.result.bytes ELSE doc
    /\ UNCHANGED <<lvars, svars, xvars>>

WriterNext == \E control_row \in WriterRecords, policy \in WriterPolicies : WriteCall(control_row, policy)

\* ------------------------------------------------------------------------
\* Properties of the writer
\* ------------------------------------------------------------------------

\* the table of the writer's documents and its header map
TableOf(d) == d[1]
HeaderMapOf(d) == build_header_map(_get_cell_texts(TableOf(d), DefaultHeaderRow - 1))

\* the text of a field's cell in a row (0-based) of a table
FieldText(table, header_map, row_index, name) ==
    table[row_index + 1][header_map[name] + 1].text

\* the data rows holding the unit of the last call, before the call
ExistingBefore(header_map) ==
    _find_existing_site_rows(TableOf(last.before), header_map,
                             last.control.homesite, DefaultHeaderRow)

\* the last call asked for a blank-fill: overwriting off, filling on
BlankFillCall ==
    /\ last.called
    /\ ~last.policy.overwrite_existing
    /\ last.policy.update_only_blank_cells

\* no mapped cell of the row that was non-blank has changed, and PRICE has
\* changed only if price updates are allowed
FrameHolds(before, after, header_map, row_index, allow_price_update) ==
    \A name \in DOMAIN header_map :
        /\ Strip(FieldText(before, header_map, row_index, name)) # <<>>
             => FieldText(after, header_map, row_index, name)
                  = FieldText(before, header_map, row_index, name)
        /\ (name = "PRICE" /\ ~allow_price_update)
             => FieldText(after, header_map, row_index, name)
                  = FieldText(before, header_map, row_index, name)

FrameOnExisting(header_map, existing_rows) ==
    existing_rows # {} =>
        FrameHolds(TableOf(last.before), TableOf(doc), header_map,
                   Min(existing_rows), last.policy.allow_price_update)

\* C1: with overwrite_existing=false and update_only_blank_cells=true, a write
\* for a unit that already has a data row changes no mapped cell of that row
\* that was non-blank before the call, and changes PRICE only if
\* allow_price_update is true
C1_BlankFillFrame ==
    BlankFillCall =>
        FrameOnExisting(HeaderMapOf(last.before), ExistingBefore(HeaderMapOf(last.before)))

\* a non-blank ADDRESS other than the record's was kept while another cell
\* of the row was filled
KeptAddress(before, after, header_map, row_index) ==
    /\ Strip(FieldText(before, header_map, row_index, "ADDRESS")) # <<>>
    /\ last.control.address # <<>>
    /\ last.control.address # FieldText(before, header_map, row_index, "ADDRESS")
    /\ FieldText(after, header_map, row_index, "ADDRESS")
         = FieldText(before, header_map, row_index, "ADDRESS")
    /\ \E name \in DOMAIN header_map :
           FieldText(after, header_map, row_index, name)
             # FieldText(before, header_map, row_index, name)

\* a blank-fill met a non-blank ADDRESS other than the record's, kept it, and
\* filled another cell of the row
C1_Witness ==
    /\ BlankFillCall
    /\ last.result.action = "updated_blanks"
    /\ KeptAddress(TableOf(last.before), TableOf(doc), HeaderMapOf(last.before),
                   last.result.row_index)

\* the row is styled as its NOTES cell's text asks
StyledByNotes(row, notes_col) ==
    row = StyledRow(row, _determine_row_style(row[notes_col + 1].text), notes_col)

RowStyledByNotes(table, header_map, row_index) ==
    "NOTES" \in DOMAIN header_map =>
        StyledByNotes(table[row_index + 1], header_map["NOTES"])

\* C2: after every successful write the target row is styled by the style of
\* the text its NOTES cell holds after the write
C2_StyleFromFinalNotes ==
    (last.called /\ last.result.bytes # NoDoc) =>
        RowStyledByNotes(TableOf(doc), HeaderMapOf(doc), last.result.row_index)

\* the call before the last wrote a record of the same (community, unit,
\* plan) into the table, and the last call ran in strict mode and located
\* the table
SecondStrictWrite ==
    /\ last.called
    /\ last.policy.strict_mode
    /\ ~last.result.raised
    /\ last.prior.written
    /\ last.prior.control.community = last.control.community
    /\ last.prior.control.homesite = last.control.homesite
    /\ last.prior.control.floorplan = last.control.floorplan

DuplicateActions == {"duplicate_site_rows_in_table", "duplicate_site_same_table"}

\* C11: in strict mode, the second of two successive writes of records with the
\* same (community, unit, plan) into one table fails as a duplicate, whatever
\* the other flags are.
C11_StrictSecondWriteFails ==
    SecondStrictWrite =>
        /\ last.result.bytes = NoDoc
        /\ last.result.action \in DuplicateActions

\* the normalized SITE values of the data rows of a table, row by row
SiteKeys(table, header_map) ==
    [r \in PyRange(DefaultHeaderRow, Len(table)) |->
        normalize_for_compare(table[r + 1][header_map["SITE"] + 1].text)]

NoSiteTwice(keys) ==
    \A r1, r2 \in DOMAIN keys : (keys[r1] = keys[r2] /\ keys[r1] # <<>>) => r1 = r2

\* no two data rows of the document's table hold the same non-blank unit
UniqueSites(d) == NoSiteTwice(SiteKeys(TableOf(d), HeaderMapOf(d)))

\* C12: a write call, whatever its record and policy, leaves a table without
\* two data rows of the same non-blank normalized SITE value in that condition;
\* so from such a table every sequence of calls keeps the units unique.
C12_UniqueSitesKept == [][UniqueSites(doc) => UniqueSites(doc')]_vars

\* a second unit was appended beside another, and a further call for a unit
\* already in the table was written without adding a row for it
C12_Witness ==
    /\ writes = 2
    /\ last.result.bytes # NoDoc
    /\ last.result.action \in {"overwritten", "updated_blanks"}
    /\ UniqueSites(last.before)
    /\ UniqueSites(doc)
    /\ Cardinality({ r \in DOMAIN SiteKeys(TableOf(doc), HeaderMapOf(doc)) :
                       SiteKeys(TableOf(doc), HeaderMapOf(doc))[r] # <<>> }) = 2

\* ------------------------------------------------------------------------
\* runner.py: the process lock
\* ------------------------------------------------------------------------

LOCK_TIMEOUT_SECONDS == 600

\* the lock file ./cache/.process_lock: absent, unparseable (a truncated
\* write: json.load raises JSONDecodeError), or the record acquire_lock dumps
LockFile(exists, parseable, pid, hostname, timestamp) ==
    [exists |-> exists, parseable |-> parseable, pid |-> pid,
     hostname |-> hostname, timestamp |-> timestamp]

NoFile == LockFile(FALSE, FALSE, 0, "", 0)
CorruptFile == LockFile(TRUE, FALSE, 0, "", 0)

\* platform.node()
Hostname == "host"

\* a test that lets a forced call be blocked as well
LockBlocksForced(file, time, force) ==
    /\ file.exists
    /\ file.parseable
    /\ time - file.timestamp < LOCK_TIMEOUT_SECONDS

\* lines 53-66: the file exists, parses, and is younger than the timeout,
\* and force is not set: acquire_lock returns False
LockBlocks(file, time, force) ==
    /\ file.exists
    /\ file.parseable
    /\ time - file.timestamp < LOCK_TIMEOUT_SECONDS
    /\ ~force

\* lines 73-79: the record written
NewLock(pid, time) == LockFile(TRUE, TRUE, pid, Hostname, time)

\* acquire_lock as one call: the value returned and the file left
acquire_lock(file, pid, time, force) ==
    IF LockBlocks(file, time, force)
    THEN [returned |-> FALSE, file |-> file]
    ELSE [returned |-> TRUE, file |-> NewLock(pid, time)]

\* release_lock: the file removed, whoever wrote it
release_lock(file) == NoFile

\* the invocations (their pids)
Pids == {1, 2}

\* the clock advances by a second, by a second less than the lock timeout,
\* or by the timeout
TickSteps == {1, LOCK_TIMEOUT_SECONDS - 1, LOCK_TIMEOUT_SECONDS}
MaxTicks == 3

NoAcquire == [called |-> FALSE]

LockIdle ==
    /\ lock_file = NoFile
    /\ now = 0
    /\ ticks = 0
    /\ acq = NoAcquire
    /\ pc = [p \in Pids |-> "idle"]
    /\ kind = [p \in Pids |-> "none"]
    /\ new_pdfs = [p \in Pids |-> FALSE]
    /\ holder = [p \in Pids |-> FALSE]
    /\ aborted = [p \in Pids |-> FALSE]
    /\ log = [p \in Pids |-> {}]

Tick(d) ==
    /\ ticks < MaxTicks
    /\ ticks' = ticks + 1
    /\ now' = now + d

\* ---- acquire_lock and release_lock called in sequence, force included ----

AcquireCall(p, force) ==
    /\ acq' = [called |-> TRUE, pid |-> p, force |-> force, before |-> lock_file,
               at |-> now,
               returned |-> acquire_lock(lock_file, p, now, force).returned,
               after |-> acquire_lock(lock_file, p, now, force).file]
    /\ lock_file' = acq'.after
    /\ UNCHANGED <<now, ticks, pc, kind, new_pdfs, holder, aborted, log>>
    /\ UNCHANGED <<wvars, svars, xvars>>

ReleaseCall ==
    /\ lock_file.exists
    /\ lock_file' = release_lock(lock_file)
    /\ UNCHANGED <<now, ticks, acq, pc, kind, new_pdfs, holder, aborted, log>>
    /\ UNCHANGED <<wvars, svars, xvars>>

\* a write of the lock file cut short: what is left does not parse
TruncatedWrite ==
    /\ lock_file.exists
    /\ lock_file.parseable
    /\ lock_file' = CorruptFile
    /\ UNCHANGED <<now, ticks, acq, pc, kind, new_pdfs, holder, aborted, log>>
    /\ UNCHANGED <<wvars, svars, xvars>>

AcquireTick ==
    \E d \in TickSteps :
        /\ Tick(d)
        /\ UNCHANGED <<lock_file, acq, pc, kind, new_pdfs, holder, aborted, log>>
        /\ UNCHANGED <<wvars, svars, xvars>>

AcquireNext ==
    \/ \E p \in Pids, force \in BOOLEAN : AcquireCall(p, force)
    \/ ReleaseCall
    \/ TruncatedWrite
    \/ AcquireTick

\* ------------------------------------------------------------------------
\* Properties of acquire_lock
\* ------------------------------------------------------------------------

\* C8: acquire_lock returns False and leaves the lock file unchanged if and
\* only if a parseable lock file exists whose timestamp is younger than the
\* 600-second threshold and force is false; in every other case it overwrites
\* the file with the caller's pid, hostname and current timestamp and returns
\* True
C8_AcquireContract ==
    acq.called =>
        IF /\ acq.before.exists
           /\ acq.before.parseable
           /\ acq.at - acq.before.timestamp < 600
           /\ ~acq.force
        THEN acq.returned = FALSE /\ acq.after = acq.before
        ELSE /\ acq.returned = TRUE
             /\ acq.after = [exists |-> TRUE, parseable |-> TRUE, pid |-> acq.pid,
                             hostname |-> Hostname, timestamp |-> acq.at]

\* a call without force met another pid's lock 599 seconds old and was refused
C8_Witness ==
    /\ acq.called
    /\ ~acq.force
    /\ acq.before.exists
    /\ acq.before.parseable
    /\ acq.before.pid # acq.pid
    /\ acq.at - acq.before.timestamp = 599
    /\ ~acq.returned
    /\ lock_file = acq.before

\* ------------------------------------------------------------------------
\* Concurrent invocations of main.py: the default command (run_master) and
\* --process-new-releases (run_process_new_releases). acquire_lock is a read
\* of the file followed by open("w") and json.dump; other invocations run
\* between these steps
\* ------------------------------------------------------------------------

Commands == {"master", "process"}

\* something a run did to the shared outputs, and whether the run held the
\* lock while doing it
Did(op, locked) == [op |-> op, locked |-> locked]

\* main.py: the command starts; run_master first scans New Releases for
\* unprocessed PDFs (Steps 1-2), run_process_new_releases calls acquire_lock
Start(p, command, found) ==
    /\ pc[p] = "idle"
    /\ kind' = [kind EXCEPT ![p] = command]
    /\ new_pdfs' = [new_pdfs EXCEPT ![p] = found /\ command = "master"]
    /\ pc' = [pc EXCEPT ![p] = IF command = "master" THEN "m_sheet" ELSE "acquire"]
    /\ UNCHANGED <<lock_file, now, ticks, acq, holder, aborted, log>>
    /\ UNCHANGED <<wvars, svars, xvars>>

\* run_master Step 3: the rows parsed from the new PDFs are upserted into the
\* CONTROL tab
MasterSheet(p) ==
    /\ pc[p] = "m_sheet"
    /\ log' = [log EXCEPT ![p] = IF new_pdfs[p]
                                 THEN @ \cup {Did("sheet_update", holder[p])} ELSE @]
    /\ pc' = [pc EXCEPT ![p] = "m_sync"]
    /\ UNCHANGED <<lock_file, now, ticks, acq, kind, new_pdfs, holder, aborted>>
    /\ UNCHANGED <<wvars, svars, xvars>>

\* run_master Step 5: sync_control_to_templates; then Step 6 takes the lock
\* only when there are new PDFs
MasterSync(p) ==
    /\ pc[p] = "m_sync"
    /\ log' = [log EXCEPT ![p] = @ \cup {Did("sync", holder[p])}]
    /\ pc' = [pc EXCEPT ![p] = IF new_pdfs[p] THEN "acquire" ELSE "done"]
    /\ UNCHANGED <<lock_file, now, ticks, acq, kind, new_pdfs, holder, aborted>>
    /\ UNCHANGED <<wvars, svars, xvars>>

\* acquire_lock lines 53-71: the file read and judged; a blocking lock makes
\* the call return False and the run return
LockCheck(p) ==
    /\ pc[p] = "acquire"
    /\ IF LockBlocks(lock_file, now, FALSE)
       THEN /\ pc' = [pc EXCEPT ![p] = "done"]
            /\ aborted' = [aborted EXCEPT ![p] = TRUE]
       ELSE /\ pc' = [pc EXCEPT ![p] = "lock_open"]
            /\ UNCHANGED aborted
    /\ UNCHANGED <<lock_file, now, ticks, acq, kind, new_pdfs, holder, log>>
    /\ UNCHANGED <<wvars, svars, xvars>>

\* acquire_lock line 78: open(LOCK_FILE, "w") leaves an empty file
LockOpen(p) ==
    /\ pc[p] = "lock_open"
    /\ lock_file' = CorruptFile
    /\ pc' = [pc EXCEPT ![p] = "lock_dump"]
    /\ UNCHANGED <<now, ticks, acq, kind, new_pdfs, holder, aborted, log>>
    /\ UNCHANGED <<wvars, svars, xvars>>

\* acquire_lock lines 79-80: the record dumped, True returned
LockDump(p) ==
    /\ pc[p] = "lock_dump"
    /\ lock_file' = NewLock(p, now)
    /\ holder' = [holder EXCEPT ![p] = TRUE]
    /\ pc' = [pc EXCEPT ![p] = "work"]
    /\ UNCHANGED <<now, ticks, acq, kind, new_pdfs, aborted, log>>
    /\ UNCHANGED <<wvars, svars, xvars>>

\* the PDFs processed into templates and uploaded, the manifest saved;
\* run_process_new_releases may sleep and go round again (poll_interval_seconds)
Work(p, again) ==
    /\ pc[p] = "work"
    /\ log' = [log EXCEPT ![p] = @ \cup {Did("process", holder[p])}]
    /\ pc' = [pc EXCEPT ![p] = IF again /\ kind[p] = "process" THEN "work" ELSE "release"]
    /\ UNCHANGED <<lock_file, now, ticks, acq, kind, new_pdfs, holder, aborted>>
    /\ UNCHANGED <<wvars, svars, xvars>>

\* finally: release_lock()
Release(p) ==
    /\ pc[p] = "release"
    /\ lock_file' = release_lock(lock_file)
    /\ holder' = [holder EXCEPT ![p] = FALSE]
    /\ pc' = [pc EXCEPT ![p] = "done"]
    /\ UNCHANGED <<now, ticks, acq, kind, new_pdfs, aborted, log>>
    /\ UNCHANGED <<wvars, svars, xvars>>

LockTick ==
    \E d \in TickSteps :
        /\ Tick(d)
        /\ UNCHANGED <<lock_file, acq, pc, kind, new_pdfs, holder, aborted, log>>
        /\ UNCHANGED <<wvars, svars, xvars>>

LockNext ==
    \/ \E p \in Pids, command \in Commands, found \in BOOLEAN : Start(p, command, found)
    \/ \E p \in Pids : MasterSheet(p)
    \/ \E p \in Pids : MasterSync(p)
    \/ \E p \in Pids : LockCheck(p)
    \/ \E p \in Pids : LockOpen(p)
    \/ \E p \in Pids : LockDump(p)
    \/ \E p \in Pids, again \in BOOLEAN : Work(p, again)
    \/ \E p \in Pids : Release(p)
    \/ LockTick

\* C6: at no time do two invocations both hold the process lock, each having
\* received True from acquire_lock and not yet released it; also while a
\* holder runs longer than the staleness threshold or polls in a loop.
C6_MutualExclusion ==
    \A p, q \in Pids : holder[p] /\ holder[q] => p = q

\* C7: whatever a run does to the shared outputs (sheet update, sync of
\* CONTROL to the templates, processing of release PDFs) it does while holding
\* the process lock, and a run whose acquire_lock failed has done nothing.
C7_WritesOnlyUnderLock ==
    \A p \in Pids :
        /\ \A e \in log[p] : e.locked
        /\ aborted[p] => log[p] = {}

\* the file as a reader finds it between open(LOCK_FILE, "w") and the end of
\* json.dump: it exists and does not parse
PartlyWritten(file) == file.exists /\ ~file.parseable

\* the step in which invocation p reads and judges the lock file
ReadsLock(p) == pc[p] = "acquire" /\ pc'[p] # "acquire"

\* invocation q has opened the lock file for writing and not yet dumped
MidWrite(q) == pc[q] = "lock_dump"

\* C21: a process that reads the lock file while another process is rewriting
\* it never observes a partially written (empty or truncated) file; a lock
\* whose holder is in the middle of writing it is never judged corrupt and
\* never reclaimed by the reader.
C21_NoPartialRead ==
    [][\A p \in Pids :
          ReadsLock(p) =>
              /\ ~PartlyWritten(lock_file)
              /\ \A q \in Pids \ {p} : MidWrite(q) => pc'[p] # "lock_open"]_vars

\* the step in which invocation p calls release_lock
Releases(p) == pc[p] = "release" /\ pc'[p] = "done"

\* the lock file records another invocation than p as holder
HeldByOther(p, file) == file.exists /\ file.parseable /\ file.pid # p

\* C29: release_lock removes the lock file only when the file records the
\* calling run as holder; a run that finishes after its lock was reclaimed by
\* another run leaves the other run's lock in place, so that the lock still
\* blocks a further invocation while the other run is running.
C29_ReleaseOwnLockOnly ==
    [][\A p \in Pids :
          (Releases(p) /\ HeldByOther(p, lock_file)) =>
              /\ lock_file' = lock_file
              /\ LockBlocks(lock_file, now, FALSE) => LockBlocks(lock_file', now', FALSE)]_vars

\* ------------------------------------------------------------------------
\* mapping_parser.py, sop_resolver.py, template_reader.py
\* ------------------------------------------------------------------------

MappingRow(community, floorplan, file_name, invisible_code, header_row) ==
    [community |-> community, floorplan |-> floorplan, file_name |-> file_name,
     invisible_code |-> invisible_code, header_row |-> header_row]

\* None in place of a MappingRow
NoMapping == MappingRow(<<>>, <<>>, "", <<>>, 0)

FirstOr(rows, S, none) == IF S = {} THEN none ELSE rows[Min(S)]

\* find_mapping_row: the first row matching (community, floorplan),
\* case-insensitive and trimmed
find_mapping_row(mapping_rows, community, floorplan) ==
    FirstOr(mapping_rows,
            { i \in DOMAIN mapping_rows :
                /\ normalize_for_compare(mapping_rows[i].community)
                     = normalize_for_compare(community)
                /\ normalize_for_compare(mapping_rows[i].floorplan)
                     = normalize_for_compare(floorplan) },
            NoMapping)

\* resolve_address: what the SOP documents on Drive answer ("" when they
\* hold no address for the homesite)
resolve_address(community, homesite, floorplan) ==
    IF normalize_for_compare(homesite) = u28 THEN aOak ELSE <<>>

\* a field of a data row as read_final_docx_data reads it
ReadField(cells, hmap, name) ==
    IF name \in DOMAIN hmap /\ hmap[name] < Len(cells)
    THEN Strip(cells[hmap[name] + 1]) ELSE <<>>

ReadRow(cells, hmap) ==
    [homesite |-> ReadField(cells, hmap, "SITE"),
     price |-> ReadField(cells, hmap, "PRICE"),
     address |-> ReadField(cells, hmap, "ADDRESS"),
     ready_by |-> ReadField(cells, hmap, "READY BY"),
     notes |-> ReadField(cells, hmap, "NOTES")]

\* every row counts as having a SITE value
AnySite(row_data) == TRUE

NonBlankSite(row_data) == row_data.homesite # <<>>

\* the data rows of one table: every row after the header with a SITE value
ReadTable(table, hmap, header_idx) ==
    IF "SITE" \notin DOMAIN hmap THEN <<>>
    ELSE SelectSeq([k \in 1..(Len(table) - header_idx - 1) |->
                       ReadRow(_get_cell_texts(table, header_idx + k), hmap)],
                   NonBlankSite)

\* read_final_docx_data: the data rows of every table whose header row has a
\* SITE column, in document order
RECURSIVE read_final_docx_data(_, _)
read_final_docx_data(doc_bytes, header_row_1based) ==
    IF doc_bytes = <<>> THEN <<>>
    ELSE (IF header_row_1based - 1 >= Len(Head(doc_bytes)) THEN <<>>
          ELSE ReadTable(Head(doc_bytes),
                         build_header_map(_get_cell_texts(Head(doc_bytes), header_row_1based - 1)),
                         header_row_1based - 1))
         \o read_final_docx_data(Tail(doc_bytes), header_row_1based)

\* read_template_data: the data rows of the table the invisible code locates;
\* nothing when the code is not found (ValueError caught) or the header row
\* lies beyond the table
ReadLocated(doc_bytes, found, header_idx) ==
    IF found.raised THEN <<>>
    ELSE IF header_idx >= Len(doc_bytes[found.table_index + 1]) THEN <<>>
    ELSE ReadTable(doc_bytes[found.table_index + 1],
                   build_header_map(_get_cell_texts(doc_bytes[found.table_index + 1], header_idx)),
                   header_idx)

read_template_data(doc_bytes, invisible_code, header_row_1based) ==
    ReadLocated(doc_bytes, find_table_by_invisible_code(doc_bytes, invisible_code),
                header_row_1based - 1)

\* ------------------------------------------------------------------------
\* runner.py: sync_control_to_templates
\* ------------------------------------------------------------------------

\* the first occurrences of a sequence's elements, in order (dict insertion)
RECURSIVE Distinct(_)
Distinct(seq) ==
    IF seq = <<>> THEN <<>>
    ELSE IF \E i \in 1..(Len(seq) - 1) : seq[i] = seq[Len(seq)]
    THEN Distinct(SubSeq(seq, 1, Len(seq) - 1))
    ELSE Append(Distinct(SubSeq(seq, 1, Len(seq) - 1)), seq[Len(seq)])

\* the keys of file_groups, in the order the seeding loop creates them
FileOrder(mapping_rows) ==
    Distinct([i \in DOMAIN mapping_rows |-> mapping_rows[i].file_name])

\* the mapping rows that seed the floorplan groups of a file: the first row of
\* each invisible code
SeedRows(mapping_rows, file_name) ==
    { i \in DOMAIN mapping_rows :
        /\ mapping_rows[i].file_name = file_name
        /\ ~\E j \in 1..(i - 1) :
              /\ mapping_rows[j].file_name = file_name
              /\ mapping_rows[j].invisible_code = mapping_rows[i].invisible_code }

\* Step A: a blank address is filled from SOP when SOP has one
SopFilled(crow, sop_addr) ==
    IF Strip(crow.address) = <<>> /\ sop_addr # <<>>
    THEN [crow EXCEPT !.address = sop_addr] ELSE crow

FillFromSop(crow) ==
    SopFilled(crow, resolve_address(crow.community, crow.homesite, crow.floorplan))

\* the CONTROL rows of the group of mapping row mrow, as the write loop takes
\* them: with the group's invisible code and header row
GroupItem(crow, mrow) ==
    [crow |-> FillFromSop(crow), invisible_code |-> mrow.invisible_code,
     header_row |-> mrow.header_row]

InGroup(found, mrow) ==
    /\ found # NoMapping
    /\ found.file_name = mrow.file_name
    /\ found.invisible_code = mrow.invisible_code

RECURSIVE GroupItems(_, _, _)
GroupItems(mapping_rows, crows, mrow) ==
    IF crows = <<>> THEN <<>>
    ELSE (IF InGroup(find_mapping_row(mapping_rows, Head(crows).community,
                                      Head(crows).floorplan), mrow)
          THEN <<GroupItem(Head(crows), mrow)>> ELSE <<>>)
         \o GroupItems(mapping_rows, Tail(crows), mrow)

\* the items of all the groups of a file, group after group
RECURSIVE FileItems(_, _, _, _)
FileItems(mapping_rows, crows, seeds, from) ==
    IF from > Len(mapping_rows) THEN <<>>
    ELSE (IF from \in seeds THEN GroupItems(mapping_rows, crows, mapping_rows[from])
          ELSE <<>>)
         \o FileItems(mapping_rows, crows, seeds, from + 1)

\* existing_by_hs: the rows read from the final document by normalized
\* homesite, a later row replacing an earlier one
Max(S) == CHOOSE x \in S : \A y \in S : x >= y

existing_by_hs(existing_rows) ==
    [k \in { normalize_for_compare(existing_rows[i].homesite) : i \in DOMAIN existing_rows } |->
        existing_rows[Max({ i \in DOMAIN existing_rows :
                              normalize_for_compare(existing_rows[i].homesite) = k })]]

control_hs_keys(items) ==
    { normalize_for_compare(items[i].crow.homesite) : i \in DOMAIN items }

\* Check 1: a homesite of the final document that is not in CONTROL
deletion_detected(existing, keys) == \E k \in DOMAIN existing : k \notin keys

\* Check 2 for a row that has a counterpart
PairChanged(crow, erow) ==
    \/ Strip(crow.notes) # Strip(erow.notes)
    \/ Strip(crow.price) # <<>> /\ Strip(crow.price) # Strip(erow.price)
    \/ Strip(crow.address) # <<>> /\ Strip(crow.address) # Strip(erow.address)
    \/ Strip(crow.ready_by) # <<>> /\ Strip(crow.ready_by) # Strip(erow.ready_by)

RowChanged(crow, existing, hs_key) ==
    \/ hs_key \notin DOMAIN existing
    \/ PairChanged(crow, existing[hs_key])

any_changes(items, existing, deleted) ==
    \/ deleted
    \/ \E i \in DOMAIN items :
           RowChanged(items[i].crow, existing, normalize_for_compare(items[i].crow.homesite))

\* the running state of the write loop: current_bytes, rows_written, the
\* errors counted, and whether a call raised
Acc(bytes, rows_written, errors, raised) ==
    [bytes |-> bytes, rows_written |-> rows_written, errors |-> errors, raised |-> raised]

\* what the loop does with one call's return: an exception leaves the loop, a
\* None counts an error, bytes are carried forward
Carry(acc, wr) ==
    IF wr.raised THEN [acc EXCEPT !.raised = TRUE]
    ELSE IF wr.bytes = NoDoc THEN [acc EXCEPT !.errors = @ + 1]
    ELSE [acc EXCEPT !.bytes = wr.bytes, !.rows_written = @ + 1]

\* the write loop over the groups of a file, with the flags the sync passes
RECURSIVE WriteAll(_, _)
WriteAll(items, acc) ==
    IF items = <<>> \/ acc.raised THEN acc
    ELSE WriteAll(Tail(items),
                  Carry(acc, write_to_template(acc.bytes, Head(items).invisible_code,
                                               Head(items).crow, TRUE, FALSE, TRUE, FALSE,
                                               FALSE, Head(items).header_row)))

\* is_template_certified: a certification recorded for the file as it is now
is_template_certified(file_name, certifications) == file_name \in certifications

\* the rows read from the final document, once per floorplan group
RECURSIVE ReadGroups(_, _, _, _)
ReadGroups(mapping_rows, seeds, from, final_bytes) ==
    IF from > Len(mapping_rows) THEN <<>>
    ELSE (IF from \in seeds
          THEN read_final_docx_data(final_bytes, mapping_rows[from].header_row)
          ELSE <<>>)
         \o ReadGroups(mapping_rows, seeds, from + 1, final_bytes)

\* what one pass of the file loop leaves: how it ended, whether the final
\* document could not be read, whether a deletion was detected, the rows
\* written, the errors counted and the document uploaded (NoDoc when none)
FileResult(status, final_failed, deleted, rows_written, errors, uploaded) ==
    [status |-> status, final_failed |-> final_failed, deleted |-> deleted,
     rows_written |-> rows_written, errors |-> errors, uploaded |-> uploaded]

Pending == FileResult("pending", FALSE, FALSE, 0, 0, NoDoc)

\* after the write loop: nothing to upload, dry run, or export and upload
FileWritten(fail, final_failed, deleted, dry, acc) ==
    IF acc.raised
    THEN FileResult("raised", final_failed, deleted, acc.rows_written, acc.errors, NoDoc)
    ELSE IF acc.rows_written = 0 /\ ~deleted
    THEN FileResult("nothing_written", final_failed, deleted, 0, acc.errors, NoDoc)
    ELSE IF dry
    THEN FileResult("dry_run", final_failed, deleted, acc.rows_written, acc.errors, NoDoc)
    ELSE IF fail = "upload"
    THEN FileResult("upload_failed", final_failed, deleted, acc.rows_written,
                    acc.errors + 1, NoDoc)
    ELSE FileResult("uploaded", final_failed, deleted, acc.rows_written, acc.errors,
                    acc.bytes)

\* Steps C and D: skip a file in sync, else rebuild from the blank template
FileStale(fail, final_failed, dry, blank_bytes, items, existing, deleted) ==
    IF ~any_changes(items, existing, deleted)
    THEN FileResult("in_sync", final_failed, FALSE, 0, 0, NoDoc)
    ELSE IF fail = "blank_download"
    THEN FileResult("download_failed", final_failed, deleted, 0, 1, NoDoc)
    ELSE FileWritten(fail, final_failed, deleted, dry,
                     WriteAll(items, Acc(blank_bytes, 0, 0, FALSE)))

FileCompare(fail, final_failed, dry, blank_bytes, items, existing) ==
    FileStale(fail, final_failed, dry, blank_bytes, items, existing,
              deletion_detected(existing, control_hs_keys(items)))

\* Step B: the final document read for comparison; a failed download or a
\* missing final leaves nothing to compare with
FileRead(mapping_rows, seeds, fail, dry, blank_bytes, final_bytes, items) ==
    IF final_bytes # NoDoc /\ fail # "final_download"
    THEN FileCompare(fail, FALSE, dry, blank_bytes, items,
                     existing_by_hs(ReadGroups(mapping_rows, seeds, 1, final_bytes)))
    ELSE FileCompare(fail, final_bytes # NoDoc, dry, blank_bytes, items, <<>>)

\* one pass of the file loop for file_name
FileRun(mapping_rows, crows, file_name, fail, blank_bytes, final_bytes, certifications, allow, dry) ==
    IF blank_bytes = NoDoc
    THEN FileResult("not_found", FALSE, FALSE, 0, 1, NoDoc)
    ELSE IF ~allow /\ ~is_template_certified(file_name, certifications)
    THEN FileResult("uncertified", FALSE, FALSE, 0, 0, NoDoc)
    ELSE FileRead(mapping_rows, SeedRows(mapping_rows, file_name), fail, dry,
                  blank_bytes, final_bytes,
                  FileItems(mapping_rows, crows, SeedRows(mapping_rows, file_name), 1))

\* ------------------------------------------------------------------------
\* One run of sync_control_to_templates over a MAPPING of three floorplans
\* in two template files
\* ------------------------------------------------------------------------

fNova == "Nova.docx"
fIsla == "Isla.docx"

MappingRows ==
    << MappingRow(cNOVA, fP2, fNova, mkP2, DefaultHeaderRow),
       MappingRow(cNOVA, fP3, fNova, mkP3, DefaultHeaderRow),
       MappingRow(cISLA, fP1, fIsla, mkP1, DefaultHeaderRow) >>

Files == { MappingRows[i].file_name : i \in DOMAIN MappingRows }

\* CONTROL rows as the sheet holds them after the run's own upserts: prices
\* and dates in the rendered format
R12 == ControlRow(cNOVA, u12, fP2, format_price(p1045990), aElm, parse_ready_by(d492026), <<>>)
R12sold == ControlRow(cNOVA, u12, fP2, format_price(p1045990), aElm, parse_ready_by(d492026), nSOLD)
R28 == ControlRow(cNOVA, u28, fP3, pFmt900, <<>>, <<>>, nFloor)
R7 == ControlRow(cISLA, u7, fP1, p875000, aOak, dFmt, <<>>)

ControlScenarios == { <<>>, <<R12>>, <<R12sold, R28>>, <<R7>>, <<R12, R7>> }

\* the pristine templates: well-formed, with the marker of plan P3 missing,
\* with the READY BY header missing; NoDoc for a file Drive does not have
NovaOk == <<PristineTable(mkP2), PristineTable(mkP3)>>
NovaNoP3 == <<PristineTable(mkP2), <<TitleRow(fP3), HeaderRow, BlankRow>> >>
IslaOk == <<PristineTable(mkP1)>>
IslaNoReadyBy ==
    << <<TitleRow(mkP1), TextRow(<<tSite, tPrice, tAddress, <<>>, tNotes>>), BlankRow>> >>

TemplateScenarios ==
    { [f \in Files |-> IF f = fNova THEN n ELSE i] :
        n \in {NovaOk, NovaNoP3, NoDoc}, i \in {IslaOk, IslaNoReadyBy, NoDoc} }

OkTemplates == [f \in Files |-> IF f = fNova THEN NovaOk ELSE IslaOk]

\* the final document an earlier run rendered for a file from CONTROL rows
\* crows (NoDoc when it rendered none)
RenderedFrom(crows, file_name) ==
    FileRun(MappingRows, crows, file_name, "none", OkTemplates[file_name], NoDoc,
            Files, TRUE, FALSE).uploaded

FinalScenarios ==
    { [f \in Files |-> RenderedFrom(crows, f)] : crows \in ControlScenarios }

SyncFailures == {"none", "final_download", "blank_download", "upload"}

NoResult == [templates_updated |-> 0, rows_synced |-> 0, errors |-> 0]

\* no sync run, in the runs of the other specifications
SyncIdle ==
    /\ control_rows = <<>>
    /\ templates = [f \in Files |-> NoDoc]
    /\ finals = [f \in Files |-> NoDoc]
    /\ finals0 = finals
    /\ certs = {}
    /\ allow_uncertified_templates = FALSE
    /\ dry_run = FALSE
    /\ spc = "idle"
    /\ queue = <<>>
    /\ result = NoResult
    /\ outcome = [f \in Files |-> Pending]

SyncSetup ==
    /\ control_rows \in ControlScenarios
    /\ templates \in TemplateScenarios
    /\ finals \in FinalScenarios
    /\ finals0 = finals
    /\ certs \in {Files, {fNova}}
    /\ allow_uncertified_templates \in BOOLEAN
    /\ dry_run \in BOOLEAN
    /\ spc = "start"
    /\ queue = <<>>
    /\ result = NoResult
    /\ outcome = [f \in Files |-> Pending]

\* lines 916-960: nothing to do for an empty CONTROL, else the groups seeded
\* from MAPPING and filled from CONTROL
SyncStart ==
    /\ spc = "start"
    /\ IF control_rows = <<>> \/ FileOrder(MappingRows) = <<>>
       THEN spc' = "returned" /\ queue' = <<>>
       ELSE spc' = "files" /\ queue' = FileOrder(MappingRows)
    /\ UNCHANGED <<control_rows, templates, finals, finals0, certs,
                   allow_uncertified_templates, dry_run, result, outcome>>
    /\ UNCHANGED <<wvars, lvars, xvars>>

\* the counters after a file
Counted(res, fr) ==
    [templates_updated |-> res.templates_updated + (IF fr.status = "uploaded" THEN 1 ELSE 0),
     rows_synced |-> res.rows_synced + (IF fr.status = "uploaded" THEN fr.rows_written ELSE 0),
     errors |-> res.errors + fr.errors]

\* the file loop's pass for the next file; an exception of the write loop
\* leaves the function, the end of the loop returns the counters
SyncFileDone(file_name, fr) ==
    /\ outcome' = [outcome EXCEPT ![file_name] = fr]
    /\ finals' = IF fr.status = "uploaded"
                 THEN [finals EXCEPT ![file_name] = fr.uploaded] ELSE finals
    /\ result' = Counted(result, fr)
    /\ queue' = Tail(queue)
    /\ spc' = IF fr.status = "raised" THEN "raised"
              ELSE IF Tail(queue) = <<>> THEN "returned" ELSE "files"

SyncFile(fail) ==
    /\ spc = "files"
    /\ queue # <<>>
    /\ SyncFileDone(Head(queue),
                    FileRun(MappingRows, control_rows, Head(queue), fail,
                            templates[Head(queue)], finals[Head(queue)], certs,
                            allow_uncertified_templates, dry_run))
    /\ UNCHANGED <<control_rows, templates, finals0, certs,
                   allow_uncertified_templates, dry_run>>
    /\ UNCHANGED <<wvars, lvars, xvars>>

SyncNext ==
    \/ SyncStart
    \/ \E fail \in SyncFailures : SyncFile(fail)

\* ------------------------------------------------------------------------
\* Properties of the sync run
\* ------------------------------------------------------------------------

\* the Records mapped to a file, as the run wrote or would write them
ItemsOf(file_name) ==
    FileItems(MappingRows, control_rows, SeedRows(MappingRows, file_name), 1)

\* the rows of a document by unit
RowsByUnit(file_name, bytes) ==
    IF bytes = NoDoc THEN <<>>
    ELSE existing_by_hs(ReadGroups(MappingRows, SeedRows(MappingRows, file_name), 1, bytes))

\* the rendered document of a file as the run could read it when it started
RenderedAtStart(file_name) ==
    IF outcome[file_name].final_failed THEN <<>>
    ELSE RowsByUnit(file_name, finals0[file_name])

UnitOf(item) == normalize_for_compare(item.crow.homesite)

\* a rendered unit without a Record of the file
DeletedUnits(items, rendered) ==
    { k \in DOMAIN rendered : \A i \in DOMAIN items : UnitOf(items[i]) # k }

\* stale: a rendered unit without Record, a Record without rendered unit, or
\* a matched pair that differs
StaleFor(items, rendered) ==
    \/ DeletedUnits(items, rendered) # {}
    \/ \E i \in DOMAIN items : UnitOf(items[i]) \notin DOMAIN rendered
    \/ \E i \in DOMAIN items :
          /\ UnitOf(items[i]) \in DOMAIN rendered
          /\ PairChanged(items[i].crow, rendered[UnitOf(items[i])])

\* the file can be reconciled and nothing failed for it: the pristine template
\* is there and certified (or certification is waived), the run is not a dry
\* run, no download, upload or Record write failed
Reconcilable(file_name) ==
    /\ templates[file_name] # NoDoc
    /\ allow_uncertified_templates \/ is_template_certified(file_name, certs)
    /\ ~dry_run
    /\ outcome[file_name].errors = 0
    /\ outcome[file_name].status # "raised"

RegeneratedIffStale(file_name, stale) ==
    /\ (outcome[file_name].status = "uploaded") <=> stale
    /\ ~stale => finals[file_name] = finals0[file_name]

\* C3: when the sync has returned, every file that could be reconciled was
\* regenerated (written, rendered, uploaded) if and only if it was stale by
\* the three conditions (rendered unit without Record, Record without
\* rendered unit, differing pair), and a file that was not stale was left as
\* it was.
C3_RegeneratedIffStale ==
    spc = "returned" =>
        \A f \in Files :
            Reconcilable(f) =>
                RegeneratedIffStale(f, StaleFor(ItemsOf(f), RenderedAtStart(f)))

DeletionRegenerated(file_name, items, deleted) ==
    deleted # {} =>
        /\ outcome[file_name].status = "uploaded"
        /\ DOMAIN RowsByUnit(file_name, finals[file_name])
             = { UnitOf(items[i]) : i \in DOMAIN items }
               \cup DOMAIN RowsByUnit(file_name, templates[file_name])
        /\ \A k \in deleted : k \notin DOMAIN RowsByUnit(file_name, finals[file_name])

\* C4: when the sync has returned, a reconcilable file whose rendered document
\* held a unit without Record under that file has been regenerated, and the
\* regenerated document holds exactly the units of the Records written (and
\* those of the pristine template), the deleted unit not among them.
C4_DeletedUnitOmitted ==
    spc = "returned" =>
        \A f \in Files :
            Reconcilable(f) =>
                DeletionRegenerated(f, ItemsOf(f),
                                    DeletedUnits(ItemsOf(f), RenderedAtStart(f)))

GroupReconciled(file_name, rendered) ==
    Reconcilable(file_name) /\ ItemsOf(file_name) = <<>> /\ DOMAIN rendered # {} =>
        /\ outcome[file_name].status = "uploaded"
        /\ DOMAIN RowsByUnit(file_name, finals[file_name])
             = DOMAIN RowsByUnit(file_name, templates[file_name])

\* C5: when the sync has returned, the file of every MAPPING row has been
\* reconciled also with zero Records, and also when the whole Record set is
\* empty: if its rendered document still held units while no Record maps to
\* it, it has been regenerated without those rows.
C5_EveryDescriptorGrouped ==
    spc = "returned" =>
        \A i \in DOMAIN MappingRows :
            GroupReconciled(MappingRows[i].file_name,
                            RenderedAtStart(MappingRows[i].file_name))

\* the errors counted for Records of a file, the upload's own error apart
RecordErrors(fr) == fr.errors - (IF fr.status = "upload_failed" THEN 1 ELSE 0)

\* C9: a Record's failed write never leaves the sync as an exception; it is
\* counted as an error, and every Record of the file is either written or
\* counted.
C9_RecordFailureRecorded ==
    \A f \in Files :
        /\ outcome[f].status # "raised"
        /\ outcome[f].status \in {"uploaded", "dry_run", "upload_failed", "nothing_written"} =>
              outcome[f].rows_written + RecordErrors(outcome[f]) = Len(ItemsOf(f))

FileFailures == {"not_found", "download_failed", "raised"}

\* C10: a file whose pristine template was not found, not downloaded or whose
\* marker was not located is counted as an error, the run does not end in an
\* exception, and when it has ended no sibling file is left unprocessed.
C10_FileFailureIsolated ==
    \A f \in Files :
        outcome[f].status \in FileFailures =>
            /\ spc # "raised"
            /\ outcome[f].errors >= 1
            /\ spc = "returned" => \A g \in Files : outcome[g].status # "pending"

\* ------------------------------------------------------------------------
\* The locator called on documents of two shapes, the cells drawn from texts
\* that hold the code, a broken code, or a longer code
\* ------------------------------------------------------------------------

NotCalled == [fn |-> "none"]

\* no pure function called, in the runs of the other specifications
CallIdle == call = NotCalled

LocateTexts ==
    { <<>>, mkP2, <<"[","[","P","2">>, <<"[","[","P","2"," ","e","x","t","r","a">>,
      <<"[","[","P","2","X","]","]">>, <<"[","[","P","2","3">>,
      <<"a"," ","[","[","P","2","]","]"," ","b">> }

LocateCodes == { <<>>, mkP2, mkP3, <<"[","[","P","2">>, <<"]","]">> }

\* two tables (one row of two cells, one row of one cell), or one table of two
\* rows (one cell, two cells)
LocateDocs ==
    { << <<TextRow(<<a, b>>)>>, <<TextRow(<<c>>)>> >> : a, b, c \in LocateTexts }
    \cup { << <<TextRow(<<a>>), TextRow(<<b, c>>)>> >> : a, b, c \in LocateTexts }

LocateCall(d, invisible_code) ==
    /\ call = NotCalled
    /\ call' = [fn |-> "find_table_by_invisible_code", doc |-> d, code |-> invisible_code,
                result |-> find_table_by_invisible_code(d, invisible_code)]
    /\ UNCHANGED <<wvars, lvars, svars, rvars>>

LocateNext == \E d \in LocateDocs, invisible_code \in LocateCodes : LocateCall(d, invisible_code)

\* the text holds the token at some position
HoldsAt(text, token, i) ==
    /\ i + Len(token) - 1 <= Len(text)
    /\ SubSeq(text, i, i + Len(token) - 1) = token

HoldsVerbatim(text, token) == \E i \in 1..(Len(text) + 1) : HoldsAt(text, token, i)

\* the text holds the core at a position where the next character is absent
\* or not alphanumeric
HoldsBroken(text, core) ==
    \E i \in 1..(Len(text) + 1) :
        /\ HoldsAt(text, core, i)
        /\ (i + Len(core) > Len(text)
            \/ text[i + Len(core)] \notin (Letters \cup Digits))

ClosedToken(token) ==
    Len(token) >= 2 /\ token[Len(token) - 1] = "]" /\ token[Len(token)] = "]"

VerbatimCells(d, token) ==
    { m \in AllCells(d) : HoldsVerbatim(CellText(d, m), token) }

BrokenCells(d, token) ==
    { m \in AllCells(d) : HoldsBroken(CellText(d, m), SubSeq(token, 1, Len(token) - 2)) }

\* the cells that match the token: those holding it verbatim, or, when there
\* is none and the token is closed by "]]", those holding it broken
TokenCells(d, token, verbatim) ==
    IF verbatim # {} THEN verbatim
    ELSE IF ClosedToken(token) THEN BrokenCells(d, token)
    ELSE {}

ResultCell(found) == <<found.table_index, found.cell_row, found.cell_col>>

LocateContract(token, found, cells) ==
    IF token = <<>> THEN found.raised
    ELSE IF cells = {} THEN found.raised /\ found.error = "NOT FOUND"
    ELSE IF \E m, n \in cells : m[1] # n[1]
    THEN found.raised /\ found.error = "MULTIPLE tables"
    ELSE /\ ~found.raised
         /\ ResultCell(found) \in cells
         /\ \A m \in cells : ScanBefore(ResultCell(found), m)

Located == call.fn = "find_table_by_invisible_code"

\* C13: find_table_by_invisible_code fails for an empty token, fails with
\* not-found when no cell matches, fails with the ambiguity error when the
\* matching cells lie in more than one table, and otherwise returns the first
\* matching cell in scan order (table, row, column).
C13_LocateContract ==
    Located =>
        LocateContract(call.code, call.result,
                       TokenCells(call.doc, call.code, VerbatimCells(call.doc, call.code)))

\* two cells of one table match, in different rows, and the call returned the
\* one in the earlier row
C13_Witness ==
    /\ Located
    /\ ~call.result.raised
    /\ \E m \in VerbatimCells(call.doc, call.code) :
          m[1] = call.result.table_index /\ m[2] > call.result.cell_row

FallbackContract(d, token, found, verbatim) ==
    IF verbatim # {}
    THEN ~found.raised => ResultCell(found) \in verbatim
    ELSE IF ~ClosedToken(token)
    THEN found.raised /\ found.error = "NOT FOUND"
    ELSE /\ (found.raised /\ found.error = "NOT FOUND") <=> BrokenCells(d, token) = {}
         /\ ~found.raised => ResultCell(found) \in BrokenCells(d, token)

\* C14: the prefix fallback is tried only when no cell holds the token
\* verbatim and the token ends in "]]"; it then matches exactly the cells that
\* hold the token without its "]]" at a position where the next character is
\* absent or not alphanumeric.
C14_PrefixFallback ==
    (Located /\ call.code # <<>>) =>
        FallbackContract(call.doc, call.code, call.result,
                         VerbatimCells(call.doc, call.code))

\* token [[P2]]: no cell holds it verbatim, the cell holding "[[P2 extra" is
\* located, the cells holding "[[P2X]]" and "[[P23" are not
C14_Witness ==
    /\ Located
    /\ call.code = mkP2
    /\ ~call.result.raised
    /\ CellText(call.doc, ResultCell(call.result)) = <<"[","[","P","2"," ","e","x","t","r","a">>
    /\ \E m, n \in AllCells(call.doc) :
          /\ CellText(call.doc, m) = <<"[","[","P","2","X","]","]">>
          /\ CellText(call.doc, n) = <<"[","[","P","2","3">>

\* ------------------------------------------------------------------------
\* runner.py: process_release_pdf and process_single_pdf, from the MAPPING
\* lookup to the manifest
\* ------------------------------------------------------------------------

\* compute_hash: the SHA-256 digest of the bytes, taken as collision-free
compute_hash(data) == <<"sha256", data>>

\* an output_hash of "" (also what a missing entry or field reads as)
NoHash == <<>>

\* export_to_pdf: the PDF rendered from the populated document
export_to_pdf(docx_bytes) == <<"pdf", docx_bytes>>

\* a manifest entry: its output_hash and the run that recorded it
Entry(output_hash, processed_at) ==
    [output_hash |-> output_hash, processed_at |-> processed_at]

NoEntry == Entry(NoHash, 0)

\* the manifest keys f"{pdf_id}_{template_name}" and pdf_id
TemplateKey(pdf_id, template_name) == <<pdf_id, template_name>>

PdfKey(pdf_id) == <<pdf_id>>

\* a homesite row of a release PDF
ReleaseHomesite(community, homesite, plan, total_released_price, base_price, coe_date) ==
    [community |-> community, homesite |-> homesite, plan |-> plan,
     total_released_price |-> total_released_price, base_price |-> base_price,
     coe_date |-> coe_date]

\* None in place of a ControlRow
NoControl == ControlRow(<<>>, <<>>, <<>>, <<>>, <<>>, <<>>, <<>>)

\* find_control_row: the first row matching (community, homesite, floorplan)
find_control_row(crows, community, homesite, floorplan) ==
    FirstOr(crows,
            { i \in DOMAIN crows :
                /\ normalize_for_compare(crows[i].community) = normalize_for_compare(community)
                /\ normalize_for_compare(crows[i].homesite) = normalize_for_compare(homesite)
                /\ normalize_for_compare(crows[i].floorplan) = normalize_for_compare(floorplan) },
            NoControl)

\* the CONTROL value when it is not blank, else the other
PreferControl(value, other) == IF Strip(value) # <<>> THEN value ELSE other

\* _build_control_row_from_pdf: price and COE date from the PDF, address,
\* notes and a set ready-by from the matching CONTROL row
BuildControlRow(hs, ctrl) ==
    ControlRow(hs.community, hs.homesite, hs.plan,
               IF hs.total_released_price # <<>> THEN hs.total_released_price
               ELSE hs.base_price,
               PreferControl(ctrl.address,
                             resolve_address(hs.community, hs.homesite, hs.plan)),
               PreferControl(ctrl.ready_by, hs.coe_date),
               PreferControl(ctrl.notes, <<>>))

_build_control_row_from_pdf(hs, crows) ==
    BuildControlRow(hs, find_control_row(crows, hs.community, hs.homesite, hs.plan))

\* Step 4: the homesites that have a MAPPING row, each with the row found
RECURSIVE Mapped(_, _)
Mapped(mapping_rows, homesites) ==
    IF homesites = <<>> THEN <<>>
    ELSE (IF find_mapping_row(mapping_rows, Head(homesites).community,
                              Head(homesites).plan) = NoMapping
          THEN <<>>
          ELSE << [hs |-> Head(homesites),
                   mrow |-> find_mapping_row(mapping_rows, Head(homesites).community,
                                             Head(homesites).plan)] >>)
         \o Mapped(mapping_rows, Tail(homesites))

\* the keys of template_groups, in insertion order
GroupOrder(mapped) == Distinct([i \in DOMAIN mapped |-> mapped[i].mrow.file_name])

\* template_groups[key]["mapping_row"]: the row of the homesite that created
\* the group
GroupRow(mapped, file_name) ==
    mapped[Min({ i \in DOMAIN mapped : mapped[i].mrow.file_name = file_name })].mrow

\* template_groups[key]["homesites"]
RECURSIVE GroupHomesites(_, _)
GroupHomesites(mapped, file_name) ==
    IF mapped = <<>> THEN <<>>
    ELSE (IF Head(mapped).mrow.file_name = file_name THEN <<Head(mapped).hs>> ELSE <<>>)
         \o GroupHomesites(Tail(mapped), file_name)

Group(mapped, file_name) ==
    [file_name |-> file_name, mrow |-> GroupRow(mapped, file_name),
     hs_list |-> GroupHomesites(mapped, file_name)]

\* the write loop of a template group: every homesite is written with the
\* invisible code and header row of the group's mapping row
RECURSIVE ReleaseWrites(_, _, _, _, _)
ReleaseWrites(hs_list, acc, crows, mrow, policy) ==
    IF hs_list = <<>> \/ acc.raised THEN acc
    ELSE ReleaseWrites(Tail(hs_list),
                       Carry(acc, write_to_template(acc.bytes, mrow.invisible_code,
                                                    _build_control_row_from_pdf(Head(hs_list), crows),
                                                    policy.overwrite_existing,
                                                    policy.update_only_blank_cells,
                                                    policy.allow_price_update,
                                                    policy.strict_mode, FALSE,
                                                    mrow.header_row)),
                       crows, mrow, policy)

\* the invisible code removed from the final version, when it is still found
RemoveFound(bytes, invisible_code, found) ==
    IF found.raised THEN bytes ELSE remove_invisible_code(bytes, found, invisible_code)

FinalVersion(bytes, invisible_code, remove_code) ==
    IF remove_code
    THEN RemoveFound(bytes, invisible_code, find_table_by_invisible_code(bytes, invisible_code))
    ELSE bytes

\* what a run did for one template: the group, the bytes generated (NoDoc
\* when none), their hash, the entry the manifest held, how it ended, and
\* whether the PDF was rendered and the two files uploaded
Done(g, bytes, old, status, rendered, docx_up, pdf_up) ==
    [file_name |-> g.file_name, mrow |-> g.mrow, hs_list |-> g.hs_list,
     bytes |-> bytes, new_hash |-> IF bytes = NoDoc THEN NoHash ELSE compute_hash(bytes),
     old |-> old, status |-> status, rendered |-> rendered,
     docx_uploaded |-> docx_up, pdf_uploaded |-> pdf_up]

\* the state a run carries from template to template
Carried(mf, folder, ups, pdfs, done, success_count, raised) ==
    [manifest |-> mf, final_folder |-> folder, uploads |-> ups, pdf_files |-> pdfs,
     done |-> done, success_count |-> success_count, raised |-> raised]

\* a PDF in Drive: the folder that holds it and its appProperties
PdfFile(folder, processed, quarantined, reason) ==
    [folder |-> folder, processed |-> processed, quarantined |-> quarantined,
     quarantine_reason |-> reason]

\* a PDF as it is dropped into the New Releases folder
NewPdf == PdfFile("new_releases", FALSE, FALSE, "")

is_already_processed(pdf_file, mf, pdf_id) ==
    pdf_file.processed \/ mf[PdfKey(pdf_id)] # NoEntry

\* move_file into the quarantine subfolder, then set_app_properties
quarantine_pdf(st, pdf_id, reason) ==
    [st EXCEPT !.pdf_files[pdf_id] =
                   PdfFile("quarantine", @.processed, TRUE, reason)]

\* set_app_properties(pdf_id, {"processed": "true", ...})
SetProcessed(st, pdf_id) == [st EXCEPT !.pdf_files[pdf_id].processed = TRUE]

Logged(st, entry, written) ==
    [st EXCEPT !.done = Append(@, entry), !.success_count = @ + written]

\* the manifest entry recorded before anything is uploaded
UploadsEager(st, key, g, bytes, fail, run, written) ==
    Logged([st EXCEPT !.manifest[key] = Entry(compute_hash(bytes), run)],
           Done(g, bytes, st.manifest[key], "upload_failed", FALSE, FALSE, FALSE), written)

\* safe_replace of the document, then of the PDF, then the manifest entry
Uploads(st, key, g, bytes, fail, run, written) ==
    IF fail = "export"
    THEN Logged(st, Done(g, bytes, st.manifest[key], "export_failed", FALSE, FALSE, FALSE), written)
    ELSE IF fail = "docx_upload"
    THEN Logged(st, Done(g, bytes, st.manifest[key], "upload_failed", TRUE, FALSE, FALSE), written)
    ELSE IF fail = "pdf_upload"
    THEN Logged([st EXCEPT !.final_folder[g.file_name].docx = bytes,
                           !.uploads = @ \cup {bytes}],
                Done(g, bytes, st.manifest[key], "upload_failed", TRUE, TRUE, FALSE), written)
    ELSE Logged([st EXCEPT !.final_folder[g.file_name] =
                               [docx |-> bytes, pdf |-> export_to_pdf(bytes)],
                           !.uploads = @ \cup {bytes},
                           !.manifest[key] = Entry(compute_hash(bytes), run)],
                Done(g, bytes, st.manifest[key], "uploaded", TRUE, TRUE, TRUE), written)

\* the hash comparison, the dry run, then the uploads
Compared(st, flags, key, g, bytes, fail, run, written) ==
    IF /\ flags.skip_unchanged
       /\ compute_hash(bytes) = st.manifest[key].output_hash
       /\ st.manifest[key].output_hash # NoHash
    THEN Logged(st, Done(g, bytes, st.manifest[key], "skipped_unchanged", FALSE, FALSE, FALSE), written)
    ELSE IF flags.dry_run
    THEN Logged(st, Done(g, bytes, st.manifest[key], "dry_run", FALSE, FALSE, FALSE), written)
    ELSE Uploads(st, key, g, bytes, fail, run, written)

\* after the write loop of a template
Written(st, flags, key, g, acc, fail, run) ==
    IF acc.raised
    THEN [Logged(st, Done(g, NoDoc, st.manifest[key], "raised", FALSE, FALSE, FALSE),
                 acc.rows_written) EXCEPT !.raised = TRUE]
    ELSE IF acc.rows_written = 0
    THEN Logged(st, Done(g, NoDoc, st.manifest[key], "nothing_written", FALSE, FALSE, FALSE), 0)
    ELSE Compared(st, flags, key, g,
                  FinalVersion(acc.bytes, g.mrow.invisible_code, flags.remove_invisible_code),
                  fail, run, acc.rows_written)

\* Step 5 for one template
TemplatePass(st, flags, pdf_id, g, crows, tmpl, certifications, fail, run) ==
    IF tmpl = NoDoc
    THEN Logged(st, Done(g, NoDoc, NoEntry, "not_found", FALSE, FALSE, FALSE), 0)
    ELSE IF ~flags.allow_uncertified_templates /\ ~is_template_certified(g.file_name, certifications)
    THEN Logged(st, Done(g, NoDoc, NoEntry, "uncertified", FALSE, FALSE, FALSE), 0)
    ELSE Written(st, flags, TemplateKey(pdf_id, g.file_name), g,
                 ReleaseWrites(g.hs_list, Acc(tmpl, 0, 0, FALSE), crows, g.mrow, flags.policy),
                 fail, run)

RECURSIVE TemplateLoop(_, _, _, _, _, _, _, _, _, _)
TemplateLoop(st, flags, pdf_id, mapped, order, crows, tmpls, certifications, fail, run) ==
    IF order = <<>> \/ st.raised THEN st
    ELSE TemplateLoop(TemplatePass(st, flags, pdf_id, Group(mapped, Head(order)), crows,
                                   tmpls[Head(order)], certifications, fail, run),
                      flags, pdf_id, mapped, Tail(order), crows, tmpls, certifications,
                      fail, run)

\* Step 6: the PDF marked as processed, on the file and in the manifest
Marked(st, flags, pdf_id, run) ==
    IF ~st.raised /\ st.success_count > 0 /\ ~flags.dry_run
    THEN [SetProcessed(st, pdf_id) EXCEPT !.manifest[PdfKey(pdf_id)] = Entry(NoHash, run)]
    ELSE st

\* Steps 4 to 6
ReleaseTemplates(st, flags, pdf, mapping_rows, crows, tmpls, certifications, fail, run) ==
    Marked(TemplateLoop(st, flags, pdf.id, Mapped(mapping_rows, pdf.homesites),
                        GroupOrder(Mapped(mapping_rows, pdf.homesites)), crows, tmpls,
                        certifications, fail, run),
           flags, pdf.id, run)

\* process_release_pdf: the download of the PDF, the homesites parsed from it,
\* the MAPPING matches, then the templates
process_release_pdf(st, flags, pdf, mapping_rows, crows, tmpls, certifications, fail, run) ==
    IF fail = "pdf_download"
    THEN quarantine_pdf(st, pdf.id, "download_failed")
    ELSE IF pdf.homesites = <<>>
    THEN quarantine_pdf(st, pdf.id, "no_homesites_in_pdf")
    ELSE IF Mapped(mapping_rows, pdf.homesites) = <<>>
    THEN quarantine_pdf(st, pdf.id, "no_mapping_matches")
    ELSE ReleaseTemplates(st, flags, pdf, mapping_rows, crows, tmpls, certifications,
                          fail, run)

\* process_single_pdf: the write, the hash comparison keyed by the PDF id,
\* the dry run, the export and the uploads (none of them caught), the manifest
SingleUploads(st, pdf_id, key, g, bytes, fail, run) ==
    IF fail = "export"
    THEN [Logged(st, Done(g, bytes, st.manifest[key], "raised", FALSE, FALSE, FALSE), 0)
             EXCEPT !.raised = TRUE]
    ELSE IF fail = "docx_upload"
    THEN [Logged(st, Done(g, bytes, st.manifest[key], "raised", TRUE, FALSE, FALSE), 0)
             EXCEPT !.raised = TRUE]
    ELSE IF fail = "pdf_upload"
    THEN [Logged([st EXCEPT !.final_folder[g.file_name].docx = bytes,
                            !.uploads = @ \cup {bytes}],
                 Done(g, bytes, st.manifest[key], "raised", TRUE, TRUE, FALSE), 0)
             EXCEPT !.raised = TRUE]
    ELSE Logged([SetProcessed(st, pdf_id)
                    EXCEPT !.final_folder[g.file_name] =
                               [docx |-> bytes, pdf |-> export_to_pdf(bytes)],
                           !.uploads = @ \cup {bytes},
                           !.manifest[key] = Entry(compute_hash(bytes), run)],
                Done(g, bytes, st.manifest[key], "success", TRUE, TRUE, TRUE), 1)

SingleCompared(st, flags, pdf_id, key, g, wr, fail, run) ==
    IF wr.raised
    THEN [Logged(st, Done(g, NoDoc, st.manifest[key], "raised", FALSE, FALSE, FALSE), 0)
             EXCEPT !.raised = TRUE]
    ELSE IF wr.bytes = NoDoc
    THEN Logged(quarantine_pdf(st, pdf_id,
                               IF wr.action # "" THEN wr.action ELSE "docx_write_failed"),
                Done(g, NoDoc, st.manifest[key], "error", FALSE, FALSE, FALSE), 0)
    ELSE IF /\ flags.skip_unchanged
            /\ compute_hash(wr.bytes) = st.manifest[key].output_hash
            /\ st.manifest[key].output_hash # NoHash
    THEN Logged(st, Done(g, wr.bytes, st.manifest[key], "skipped_unchanged", FALSE, FALSE, FALSE), 0)
    ELSE IF flags.dry_run
    THEN Logged(st, Done(g, wr.bytes, st.manifest[key], "dry_run", FALSE, FALSE, FALSE), 0)
    ELSE SingleUploads(st, pdf_id, key, g, wr.bytes, fail, run)

SingleWrite(st, flags, pdf, g, ctrl, tmpl, certifications, fail, run) ==
    IF tmpl = NoDoc
    THEN Logged(quarantine_pdf(st, pdf.id, "template_not_found"),
                Done(g, NoDoc, NoEntry, "not_found", FALSE, FALSE, FALSE), 0)
    ELSE IF ~flags.allow_uncertified_templates /\ ~is_template_certified(g.file_name, certifications)
    THEN Logged(st, Done(g, NoDoc, NoEntry, "uncertified", FALSE, FALSE, FALSE), 0)
    ELSE SingleCompared(st, flags, pdf.id, PdfKey(pdf.id), g,
                        write_to_template(tmpl, g.mrow.invisible_code, ctrl,
                                          flags.policy.overwrite_existing,
                                          flags.policy.update_only_blank_cells,
                                          flags.policy.allow_price_update,
                                          flags.policy.strict_mode,
                                          flags.remove_invisible_code, g.mrow.header_row),
                        fail, run)

NoGroup == [file_name |-> "", mrow |-> NoMapping, hs_list |-> <<>>]

SingleMapped(st, flags, pdf, ctrl, mrow, tmpls, certifications, fail, run) ==
    IF mrow = NoMapping
    THEN Logged(quarantine_pdf(st, pdf.id, "no_mapping_match"),
                Done(NoGroup, NoDoc, NoEntry, "no_mapping_match", FALSE, FALSE, FALSE), 0)
    ELSE SingleWrite(st, flags, pdf, [file_name |-> mrow.file_name, mrow |-> mrow, hs_list |-> <<>>],
                     ctrl, tmpls[mrow.file_name], certifications, fail, run)

process_single_pdf(st, flags, pdf, mapping_rows, crows, tmpls, certifications, fail, run) ==
    IF find_control_row(crows, pdf.community, pdf.homesite, pdf.floorplan) = NoControl
    THEN Logged(quarantine_pdf(st, pdf.id, "no_control_match"),
                Done(NoGroup, NoDoc, NoEntry, "no_control_match", FALSE, FALSE, FALSE), 0)
    ELSE SingleMapped(st, flags, pdf,
                      FillFromSop(find_control_row(crows, pdf.community, pdf.homesite,
                                                   pdf.floorplan)),
                      find_mapping_row(mapping_rows, pdf.community, pdf.floorplan),
                      tmpls, certifications, fail, run)

\* ------------------------------------------------------------------------
\* Runs of the PDF processing over a MAPPING where two plans of a community
\* share one template file and a third plan lives in another
\* ------------------------------------------------------------------------

MaxRuns == 2

ReleaseMappingRows ==
    << MappingRow(cNOVA, fP2, fNova, mkP2, DefaultHeaderRow),
       MappingRow(cNOVA, fP3, fNova, mkP3, DefaultHeaderRow),
       MappingRow(cNOVA, fP1, fIsla, mkP1, DefaultHeaderRow) >>

Hs12 == ReleaseHomesite(cNOVA, u12, fP2, p1045990, <<>>, d492026)
Hs28 == ReleaseHomesite(cNOVA, u28, fP3, <<>>, p875000, <<>>)
Hs7 == ReleaseHomesite(cNOVA, u7, fP1, p875000, <<>>, d492026)
Hs9 == ReleaseHomesite(cNOVA, u7, fP9, p875000, <<>>, d492026)

\* a release PDF: two plans that share a template file, and a third plan in
\* another file
\* and one whose only homesite is of a plan that MAPPING does not hold
ReleasePdfs ==
    { [id |-> "pdfA", homesites |-> <<Hs12, Hs28, Hs7>>],
      [id |-> "pdfB", homesites |-> <<Hs9>>] }

\* a legacy PDF, named for one homesite
SinglePdfs == { [id |-> "pdfC", community |-> cNOVA, homesite |-> u12, floorplan |-> fP2] }

PdfIds == {"pdfA", "pdfB", "pdfC"}

ManifestKeys == { PdfKey(p) : p \in PdfIds } \cup { TemplateKey(p, f) : p \in PdfIds, f \in Files }

\* the CONTROL rows a run reads
ReleaseControls == { <<R12>>, <<R12sold, R28>> }

\* the collaborator that fails in a run
ReleaseFailures == {"none", "pdf_download", "export", "docx_upload", "pdf_upload"}

\* cfg.app as loaded: the defaults of config.py, with skip_unchanged and
\* dry_run either way
Flags(skip_unchanged, dry) ==
    [skip_unchanged |-> skip_unchanged, dry_run |-> dry, policy |-> ConfigDefaults,
     remove_invisible_code |-> TRUE, allow_uncertified_templates |-> FALSE]

NoRun == [fn |-> "none", done |-> <<>>]

EmptyFolder == [f \in Files |-> [docx |-> NoDoc, pdf |-> NoDoc]]

\* no PDF processed, in the runs of the other specifications
ReleaseIdle ==
    /\ cfg = Flags(TRUE, FALSE)
    /\ manifest = [k \in ManifestKeys |-> NoEntry]
    /\ final_folder = EmptyFolder
    /\ uploads = {}
    /\ pdf_files = [p \in PdfIds |-> NewPdf]
    /\ runs = 0
    /\ released = NoRun

\* an empty manifest and an empty final folder
ReleaseSetup ==
    /\ cfg \in { Flags(s, d) : s, d \in BOOLEAN }
    /\ manifest = [k \in ManifestKeys |-> NoEntry]
    /\ final_folder = EmptyFolder
    /\ uploads = {}
    /\ pdf_files = [p \in PdfIds |-> NewPdf]
    /\ runs = 0
    /\ released = NoRun

\* what a run leaves
Ran(fn, pdf, crows, st) ==
    /\ manifest' = st.manifest
    /\ final_folder' = st.final_folder
    /\ uploads' = st.uploads
    /\ pdf_files' = st.pdf_files
    /\ runs' = runs + 1
    /\ released' = [fn |-> fn, pdf |-> pdf, control_rows |-> crows, before |-> manifest,
                    done |-> st.done, raised |-> st.raised]
    /\ UNCHANGED <<wvars, lvars, svars, call, cfg>>

ReleasePdf(pdf, crows, fail) ==
    /\ runs < MaxRuns
    /\ \E st \in { process_release_pdf(Carried(manifest, final_folder, uploads, pdf_files, <<>>, 0, FALSE),
                                       cfg, pdf, ReleaseMappingRows, crows, OkTemplates,
                                       Files, fail, runs + 1) } :
          Ran("process_release_pdf", pdf, crows, st)

SinglePdf(pdf, crows, fail) ==
    /\ runs < MaxRuns
    /\ \E st \in { process_single_pdf(Carried(manifest, final_folder, uploads, pdf_files, <<>>, 0, FALSE),
                                      cfg, pdf, ReleaseMappingRows, crows, OkTemplates,
                                      Files, fail, runs + 1) } :
          Ran("process_single_pdf", pdf, crows, st)

ReleaseNext ==
    \/ \E pdf \in ReleasePdfs, crows \in ReleaseControls, fail \in ReleaseFailures :
          ReleasePdf(pdf, crows, fail)
    \/ \E pdf \in SinglePdfs, crows \in ReleaseControls, fail \in ReleaseFailures :
          SinglePdf(pdf, crows, fail)

\* ------------------------------------------------------------------------
\* Properties of the PDF processing
\* ------------------------------------------------------------------------

\* the templates for which the last run generated bytes
Generated == { i \in DOMAIN released.done : released.done[i].bytes # NoDoc }

\* the manifest key of a template of the last run
KeyOf(e) ==
    IF released.fn = "process_release_pdf"
    THEN TemplateKey(released.pdf.id, e.file_name)
    ELSE PdfKey(released.pdf.id)

Unchanged(e, stored) == stored.output_hash # NoHash /\ e.new_hash = stored.output_hash

NothingDone(e) == ~e.rendered /\ ~e.docx_uploaded /\ ~e.pdf_uploaded

\* the run went on to render and upload (whether or not that succeeded)
Proceeded(e) == e.status \notin {"skipped_unchanged", "dry_run"}

\* an unchanged hash with skip-unchanged enabled short-circuits
SkipsUnchanged(e, key) ==
    (cfg.skip_unchanged /\ Unchanged(e, released.before[key]))
        => (NothingDone(e) /\ manifest[key] = released.before[key])

\* the entry changes only to the hash of the bytes of two successful uploads
SetAfterUploads(e, key) ==
    manifest[key] # released.before[key]
        => /\ e.docx_uploaded /\ e.pdf_uploaded
           /\ manifest[key].output_hash = e.new_hash
           /\ final_folder[e.file_name].docx = e.bytes

StoredWasUploaded ==
    \A k \in ManifestKeys :
        manifest[k].output_hash # NoHash
            => \E b \in uploads : compute_hash(b) = manifest[k].output_hash

\* C15 as stated: with skip-unchanged enabled and an unchanged hash nothing is
\* rendered or uploaded and the entry stays; when the hash differs or no entry
\* exists the upload proceeds; the entry's outputHash is set only after both
\* uploads succeeded; a stored outputHash is the hash of uploaded bytes.
C15_UploadUnlessUnchanged ==
    /\ \A i \in Generated :
          /\ SkipsUnchanged(released.done[i], KeyOf(released.done[i]))
          /\ ~Unchanged(released.done[i], released.before[KeyOf(released.done[i])])
                => Proceeded(released.done[i])
          /\ SetAfterUploads(released.done[i], KeyOf(released.done[i]))
    /\ StoredWasUploaded

\* C15 amended: the same, where the upload proceeds on a differing hash or a
\* missing entry only when the dry run is disabled.
C15_UploadUnlessUnchangedOrDryRun ==
    /\ \A i \in Generated :
          /\ SkipsUnchanged(released.done[i], KeyOf(released.done[i]))
          /\ (~cfg.dry_run
              /\ ~Unchanged(released.done[i], released.before[KeyOf(released.done[i])]))
                => Proceeded(released.done[i])
          /\ SetAfterUploads(released.done[i], KeyOf(released.done[i]))
    /\ StoredWasUploaded

\* a second run generated the bytes whose hash the manifest holds and was
\* short-circuited, and an earlier upload of those bytes is what is stored
C15_Witness ==
    /\ runs = 2
    /\ cfg.skip_unchanged
    /\ \E i \in Generated :
          /\ released.done[i].status = "skipped_unchanged"
          /\ manifest[KeyOf(released.done[i])].output_hash = released.done[i].new_hash
          /\ released.done[i].bytes \in uploads

\* the table (0-based) the template holds for the plan of a homesite: the one
\* located by the invisible code of the MAPPING row of (community, plan)
OwnTable(hs, file_name) ==
    find_table_by_invisible_code(
        OkTemplates[file_name],
        find_mapping_row(ReleaseMappingRows, hs.community, hs.plan).invisible_code).table_index

UnitInTable(table, unit) ==
    \E r \in DOMAIN table : \E c \in DOMAIN table[r] : table[r][c].text = unit

InOwnTableOnly(bytes, unit, own) ==
    \A t \in DOMAIN bytes : UnitInTable(bytes[t], unit) => t - 1 = own

GroupInOwnTables(e) ==
    \A k \in DOMAIN e.hs_list :
        InOwnTableOnly(e.bytes, e.hs_list[k].homesite, OwnTable(e.hs_list[k], e.file_name))

\* C18: every record a run writes goes into the table located by the marker
\* of the descriptor of the record's own (community, plan), also when several
\* plans share one template file; none is written into another plan's table.
C18_WrittenToOwnTable ==
    released.fn = "process_release_pdf" =>
        \A i \in Generated : GroupInOwnTables(released.done[i])

\* ------------------------------------------------------------------------
\* Calls of the pure functions: _write_row on an empty data row,
\* build_header_map on a header row, format_price on a value
\* ------------------------------------------------------------------------

StyleNotes ==
    { <<>>,
      <<"s","o","l","d">>,
      <<"u","n","i","t"," ","s","o","l","d">>,
      <<"S","O","L","D">>,
      <<" ","U","n","s","o","l","d"," ">>,
      <<"u","p","g","r","a","d","e","d"," ","f","l","o","o","r","i","n","g">>,
      <<"U","p","g","r","a","d","e","d"," ","F","l","o","o","r","i","n","g">>,
      <<"u","p","g","r","a","d","e","d"," ","f","l","o","o","r","i","n","g",","," ","s","o","l","d">>,
      <<"S","o","l","d"," ","w","i","t","h"," ","U","p","g","r","a","d","e","d"," ","F","l","o","o","r","i","n","g">>,
      <<"u","p","g","r","a","d","e","d"," "," ","f","l","o","o","r","i","n","g">>,
      <<"V","i","e","w">>,
      <<"f","l","o","o","r","i","n","g"," ","u","p","g","r","a","d","e","d">> }

\* the record of the end-to-end example, with each of the notes
StyleRecords ==
    { ControlRow(cNOVA, u28, fP3, p1045990, address, d492026, notes) :
        address \in {<<>>, aElm}, notes \in StyleNotes }

\* tables with an empty data row: the standard header row, the NOTES column
\* first, and no NOTES column
StyleTables ==
    { PristineTable(mkP3),
      <<TitleRow(mkP3), TextRow(<<tNotes, tSite, tPrice, tAddress, tReadyBy>>), BlankRow>>,
      <<TitleRow(mkP3), TextRow(<<tSite, tPrice, tAddress, tReadyBy, <<>>>>), BlankRow>> }

\* _write_row on the data row under the header row
StyleCall(table, control) ==
    /\ call = NotCalled
    /\ call' = [fn |-> "_write_row", table |-> table, control |-> control,
                header_map |-> build_header_map(_get_cell_texts(table, DefaultHeaderRow - 1)),
                result |-> _write_row(table, DefaultHeaderRow,
                                      build_header_map(_get_cell_texts(table, DefaultHeaderRow - 1)),
                                      control)]
    /\ UNCHANGED <<wvars, lvars, svars, rvars>>

MaxHeaderCols == 3

\* header cell texts: aliases in several spellings, an unknown header, a
\* blank cell
HeaderTexts ==
    { <<"S","i","t","e">>,
      <<"H","o","m","e","-","S","i","t","e">>,
      <<"h","o","m","e","_","s","i","t","e">>,
      <<"R","e","a","d","y","-","B","y">>,
      <<"R","E","A","D","Y","B","Y">>,
      <<"M","o","v","e"," "," ","I","n">>,
      <<"P","r","i","c","e",":">>,
      <<"(","N","o","t","e",")">>,
      <<"L","o","t">>,
      <<>> }

HeaderCells == UNION { [1..n -> HeaderTexts] : n \in 0..MaxHeaderCols }

HeaderMapCall(cells) ==
    /\ call = NotCalled
    /\ call' = [fn |-> "build_header_map", cells |-> cells, result |-> build_header_map(cells)]
    /\ UNCHANGED <<wvars, lvars, svars, rvars>>

\* the values format_price is called with: None, or the text of str(value)
PriceValue(is_none, text) == [is_none |-> is_none, text |-> text]

PriceTexts ==
    { <<>>,
      <<" "," "," ">>,
      <<"1","2","3","4","5","6","7">>,
      <<"$","1",",","2","3","4",",","5","6","7">>,
      <<"1","2","3","4","5","6","7",".","8","9">>,
      <<"1","0","4","5","9","9","0">>,
      <<" ","8","7","5","0","0","0"," ">>,
      <<"a","b","c">>,
      <<"$","a","b","c">>,
      <<"-","5">>,
      <<"-","0",".","5">>,
      <<"0">>,
      <<".","5">>,
      <<"1",",","2">>,
      <<"1","2">>,
      <<"n","a","n">>,
      <<"i","n","f">>,
      <<"-","I","n","f","i","n","i","t","y">>,
      <<"$","9","9","9",".","9","9">>,
      <<"1","0","0","0">> }

PriceValues == { PriceValue(TRUE, <<>>) } \cup { PriceValue(FALSE, t) : t \in PriceTexts }

\* what a call of format_price gives: an exception, or the text returned
Returned(raised, text) == [raised |-> raised, text |-> text]

FormatPriceOf(v) ==
    IF v.is_none THEN Returned(FALSE, <<>>)
    ELSE IF format_price_raises(v.text) THEN Returned(TRUE, <<>>)
    ELSE Returned(FALSE, format_price(v.text))

\* format_price(value), and format_price of what it returned
FormatPriceCall(v) ==
    /\ call = NotCalled
    /\ call' = [fn |-> "format_price", value |-> v, result |-> FormatPriceOf(v),
                again |-> IF FormatPriceOf(v).raised THEN Returned(TRUE, <<>>)
                          ELSE FormatPriceOf(PriceValue(FALSE, FormatPriceOf(v).text))]
    /\ UNCHANGED <<wvars, lvars, svars, rvars>>

\* the header_row values of a MAPPING row: MappingRow.from_dict takes any
\* integer the cell holds (int(str(raw).strip())), the default 2 otherwise
HeaderRowNumbers == {-3, -1, 0, 1, DefaultHeaderRow, 3, 4, 5}

\* a row of totals under the data rows
tTotal == <<"T","o","t","a","l">>
TotalsRow == TextRow(<<tTotal, pFmt900, <<>>, <<>>, <<>>>>)

\* documents of one table: the pristine template, a table that ends with its
\* header row, tables that end with a totals row (with and without a blank
\* data row above it), and a table with one unit written
WriteAtDocs ==
    { <<PristineTable(mkP2)>>,
      << <<TitleRow(mkP2), HeaderRow>> >>,
      << <<TitleRow(mkP2), HeaderRow,
           WrittenRow(<<u12, pFmt900, aElm, dFmt, <<>>>>), TotalsRow>> >>,
      << <<TitleRow(mkP2), HeaderRow, BlankRow, TotalsRow>> >>,
      << <<TitleRow(mkP2), HeaderRow, WrittenRow(<<u12, pFmt900, aElm, dFmt, <<>>>>)>> >> }

WriteAtRecords ==
    { ControlRow(cNOVA, u12, fP2, p1045990, aElm, d492026, <<>>),
      ControlRow(cNOVA, u7, fP2, p875000, aOak, dIso, nSOLD) }

\* write_to_template with the header row a MAPPING row declares
WriteAtCall(d, control_row, policy, header_row) ==
    /\ call = NotCalled
    /\ call' = [fn |-> "write_to_template", before |-> d, control |-> control_row,
                policy |-> policy, header_row |-> header_row,
                result |-> write_to_template(d, mkP2, control_row,
                               policy.overwrite_existing, policy.update_only_blank_cells,
                               policy.allow_price_update, policy.strict_mode,
                               policy.remove_code, header_row)]
    /\ UNCHANGED <<wvars, lvars, svars, rvars>>

CallsNext ==
    \/ \E table \in StyleTables, control \in StyleRecords : StyleCall(table, control)
    \/ \E cells \in HeaderCells : HeaderMapCall(cells)
    \/ \E v \in PriceValues : FormatPriceCall(v)
    \/ \E d \in WriteAtDocs, control_row \in WriteAtRecords, policy \in {ConfigDefaults, SyncPolicy}, header_row \in HeaderRowNumbers : WriteAtCall(d, control_row, policy, header_row)

\* ------------------------------------------------------------------------
\* Properties of the pure functions
\* ------------------------------------------------------------------------

\* the text holds the word at some position, whatever the case of its letters
HoldsAnyCase(text, word) ==
    \E i \in 1..(Len(text) - Len(word) + 1) :
        \A k \in 1..Len(word) : LowerChar(text[i + k - 1]) = word[k]

\* the colour and fill the rules give the cell in column col (0-based)
RuleColor(notes, col, notes_col) ==
    IF HoldsAnyCase(notes, sSold) THEN "red"
    ELSE IF HoldsAnyCase(notes, sUpgradedFlooring) /\ col = notes_col THEN "white"
    ELSE "black"

RuleFill(notes, col, notes_col) ==
    IF ~HoldsAnyCase(notes, sSold) /\ HoldsAnyCase(notes, sUpgradedFlooring) /\ col = notes_col
    THEN "7030A0" ELSE "none"

RowFollowsRules(row, notes, notes_col) ==
    \A c \in DOMAIN row :
        /\ row[c].color = RuleColor(notes, c - 1, notes_col)
        /\ row[c].fill = RuleFill(notes, c - 1, notes_col)
        /\ row[c].align = "center"

NotesColumn(header_map) == IF "NOTES" \in DOMAIN header_map THEN header_map["NOTES"] ELSE -1

\* the record of the end-to-end example
ExampleRecord(control) ==
    /\ control.homesite = u28
    /\ control.price = p1045990
    /\ control.notes = nUnitSold

ExampleRow(row, header_map) ==
    /\ row[header_map["SITE"] + 1].text = u28
    /\ row[header_map["PRICE"] + 1].text = <<"$","1",",","0","4","5",",","9","9","0">>
    /\ \A c \in DOMAIN row : row[c].color = "red" /\ row[c].fill = "none"

Styled == call.fn = "_write_row"

\* C16: the style of a written row is a function of the notes: 'sold' in any
\* case gives red text and no fill on every cell; otherwise 'upgraded
\* flooring' gives white text on fill 7030A0 on the NOTES cell only and black
\* text without fill elsewhere; otherwise black text without fill; every cell
\* is centred; the record (28, 'unit sold', 1045990) gives SITE '28', PRICE
\* '$1,045,990' and a red, unfilled row.
C16_StyleFromNotes ==
    Styled =>
        /\ RowFollowsRules(call.result[DefaultHeaderRow + 1], call.control.notes,
                           NotesColumn(call.header_map))
        /\ ExampleRecord(call.control)
              => ExampleRow(call.result[DefaultHeaderRow + 1], call.header_map)

\* the example record was written into the empty data row of the standard
\* table
C16_Witness ==
    /\ Styled
    /\ call.table = PristineTable(mkP3)
    /\ ExampleRecord(call.control)
    /\ ExampleRow(call.result[DefaultHeaderRow + 1], call.header_map)

\* a header text without what does not count: letters in upper case, '-',
\* '_' and whitespace runs as one space, other punctuation left out, no space
\* at either end
RECURSIVE Squeeze(_, _)
Squeeze(text, acc) ==
    IF text = <<>> THEN acc
    ELSE IF Head(text) \in Spaces \cup {"-", "_"}
    THEN Squeeze(Tail(text), IF acc = <<>> \/ acc[Len(acc)] = " " THEN acc ELSE Append(acc, " "))
    ELSE IF Head(text) \in Letters \cup Digits
    THEN Squeeze(Tail(text), Append(acc, UpperChar(Head(text))))
    ELSE Squeeze(Tail(text), acc)

DropLastSpace(s) == IF s # <<>> /\ s[Len(s)] = " " THEN SubSeq(s, 1, Len(s) - 1) ELSE s

Skeleton(text) == DropLastSpace(Squeeze(text, <<>>))

\* the columns (0-based) whose header text is an alias of the canonical field
AliasColumns(cells, canonical) ==
    { i - 1 : i \in { j \in DOMAIN cells : Skeleton(cells[j]) \in HEADER_ALIASES[canonical] } }

MapsLowest(cells, hmap, canonical, columns) ==
    IF columns = {} THEN canonical \notin DOMAIN hmap
    ELSE /\ canonical \in DOMAIN hmap
         /\ hmap[canonical] \in columns
         /\ \A i \in columns : hmap[canonical] <= i

HeaderMapped == call.fn = "build_header_map"

\* C19: build_header_map maps each canonical field to the lowest column whose
\* header text is one of its aliases, whatever the case, '-' or '_' for a
\* space, other punctuation and repeated whitespace; it maps no column to two
\* canonical fields and omits the canonical fields without a column.
C19_HeaderMap ==
    HeaderMapped =>
        /\ DOMAIN call.result \subseteq Range(Canonicals)
        /\ \A c \in Range(Canonicals) :
              MapsLowest(call.cells, call.result, c, AliasColumns(call.cells, c))
        /\ \A c1, c2 \in DOMAIN call.result :
              call.result[c1] = call.result[c2] => c1 = c2

\* 'READYBY' in the first column and 'Ready-By' in a later one: READY BY is
\* mapped to the first, and a SITE alias in between to its own column
C19_Witness ==
    /\ HeaderMapped
    /\ Len(call.cells) = 3
    /\ call.cells[1] = <<"R","E","A","D","Y","B","Y">>
    /\ call.cells[2] = <<"h","o","m","e","_","s","i","t","e">>
    /\ call.cells[3] = <<"R","e","a","d","y","-","B","y">>
    /\ call.result = [c \in {"READY BY", "SITE"} |-> IF c = "SITE" THEN 1 ELSE 0]

\* the digits with a comma before every group of three counted from the end
GroupedLen(ds) == Len(ds) + ((Len(ds) - 1) \div 3)

\* the character r places from the right end: a comma at every fourth place
GroupedAt(ds, r) == IF r % 4 = 3 THEN "," ELSE ds[Len(ds) - (r - (r \div 4))]

Grouped(ds) == [i \in 1..GroupedLen(ds) |-> GroupedAt(ds, GroupedLen(ds) - i)]

\* digits, with an optional fraction after a point
WholeDigits(text) == text # <<>> /\ \A i \in DOMAIN text : text[i] \in Digits

IntegerPart(text) ==
    IF \E i \in DOMAIN text : text[i] = "."
    THEN SubSeq(text, 1, (CHOOSE i \in DOMAIN text : text[i] = "." /\ \A j \in 1..(i - 1) : text[j] # ".") - 1)
    ELSE text

FractionPart(text) ==
    IF \E i \in DOMAIN text : text[i] = "."
    THEN SubSeq(text, (CHOOSE i \in DOMAIN text : text[i] = "." /\ \A j \in 1..(i - 1) : text[j] # ".") + 1, Len(text))
    ELSE <<>>

Numeric(text) ==
    /\ WholeDigits(IntegerPart(text))
    /\ Head(IntegerPart(text)) # "0"
    /\ \A i \in DOMAIN FractionPart(text) : FractionPart(text)[i] \in Digits

PriceFormatted == call.fn = "format_price"

\* C20: format_price returns for every input and is idempotent; it gives ""
\* for "" and None; for a numeric input it gives '$' and the thousands-grouped
\* integer part, the fraction cut off; '$1,234,567' comes back unchanged.
C20_FormatPriceIdempotent ==
    PriceFormatted =>
        /\ ~call.result.raised
        /\ call.again = call.result
        /\ (call.value.is_none \/ call.value.text = <<>>) => call.result.text = <<>>
        /\ (~call.value.is_none /\ Numeric(call.value.text))
              => call.result.text = <<"$">> \o Grouped(IntegerPart(call.value.text))
        /\ (~call.value.is_none /\ call.value.text = <<"$","1",",","2","3","4",",","5","6","7">>)
              => call.result.text = call.value.text

\* ------------------------------------------------------------------------
\* Properties of reading back what was written
\* ------------------------------------------------------------------------

\* the last call appended or overwrote a row
RowWritten ==
    /\ last.called
    /\ last.result.bytes # NoDoc
    /\ last.result.action \in {"appended", "overwritten"}

\* the snapshots of the record's unit
SnapshotsOf(rows, control) ==
    { i \in DOMAIN rows :
        normalize_for_compare(rows[i].homesite) = normalize_for_compare(control.homesite) }

Carries(snapshot, control) ==
    /\ snapshot.price = format_price(control.price)
    /\ snapshot.address = control.address
    /\ snapshot.ready_by = parse_ready_by(control.ready_by)
    /\ snapshot.notes = Strip(control.notes)

\* the data rows of the table whose SITE cell is not blank
SiteRows(table, header_map) ==
    { r \in PyRange(DefaultHeaderRow, Len(table)) :
        Strip(table[r + 1][header_map["SITE"] + 1].text) # <<>> }

\* exactly one snapshot for the record's unit, carrying the record's values,
\* and one snapshot per data row with a SITE value
ReadsBack(rows, control, d) ==
    /\ Cardinality(SnapshotsOf(rows, control)) = 1
    /\ \A i \in SnapshotsOf(rows, control) : Carries(rows[i], control)
    /\ \A i \in DOMAIN rows : rows[i].homesite # <<>>
    /\ Len(rows) = Cardinality(SiteRows(TableOf(d), HeaderMapOf(d)))

SingleBefore == Cardinality(ExistingBefore(HeaderMapOf(last.before))) <= 1

HeadersPassed ==
    /\ last.called
    /\ ~last.result.raised
    /\ validate_headers(HeaderMapOf(last.before), last.policy.strict_mode) = {}

\* the data rows of a document whose normalized SITE equals the normalized unit
RowsOfUnit(keys, unit) ==
    { r \in DOMAIN keys : keys[r] = normalize_for_compare(unit) }

\* the outcome the count k and the policy ask for
OutcomeFor(k, policy) ==
    IF k > 1 /\ policy.strict_mode THEN "DuplicateUnit"
    ELSE IF k >= 1
    THEN IF policy.overwrite_existing THEN "overwritten"
         ELSE IF policy.update_only_blank_cells THEN "updated_blanks"
         ELSE "DuplicateUnit"
    ELSE "appended"

\* the call's result and the caller's document agree with the outcome
OutcomeIs(outcome_name, rows, res) ==
    IF outcome_name = "DuplicateUnit"
    THEN /\ res.bytes = NoDoc
         /\ res.error # ""
         /\ res.action \in DuplicateActions
         /\ doc = last.before
    ELSE /\ res.bytes # NoDoc
         /\ res.error = ""
         /\ res.action = outcome_name
         /\ rows # {} => res.row_index = Min(rows)
         /\ doc = res.bytes

\* C22: for a write that passes header validation the outcome is determined by
\* the number k of data rows whose normalized SITE equals the record's
\* normalized unit and by the policy: k > 1 in strict mode is a duplicate
\* error; otherwise k >= 1 targets the first matching row and gives
\* overwritten, else updated_blanks, else a duplicate error; k = 0 gives
\* appended. Every error returns no document and the caller's is unchanged.
C22_OutcomeByCount ==
    HeadersPassed =>
        OutcomeIs(OutcomeFor(Cardinality(RowsOfUnit(SiteKeys(TableOf(last.before), HeaderMapOf(last.before)), last.control.homesite)), last.policy),
                  RowsOfUnit(SiteKeys(TableOf(last.before), HeaderMapOf(last.before)), last.control.homesite),
                  last.result)

\* a second call met the one row the first had written for its unit, with
\* overwriting and blank-filling both off, and failed leaving the document
C22_Witness ==
    /\ writes = 2
    /\ HeadersPassed
    /\ last.prior.written
    /\ Cardinality(ExistingBefore(HeaderMapOf(last.before))) = 1
    /\ ~last.policy.overwrite_existing
    /\ ~last.policy.update_only_blank_cells
    /\ last.result.action = "duplicate_site_same_table"
    /\ last.result.bytes = NoDoc
    /\ doc = last.before

\* the data rows of a table whose mapped columns are all blank
BlankRows(table, header_map) ==
    { r \in PyRange(DefaultHeaderRow, Len(table)) :
        \A name \in DOMAIN header_map :
            Strip(table[r + 1][header_map[name] + 1].text) = <<>> }

\* a row with the texts and font colours cleared
Cleared(row) == [c \in DOMAIN row |-> [row[c] EXCEPT !.text = <<>>, !.color = "auto"]]

\* the target of an append: the lowest blank row, or one row added at the end
AppendTarget(before, after, header_map, blanks, row_index) ==
    IF blanks # {}
    THEN /\ row_index = Min(blanks)
         /\ Len(after) = Len(before)
    ELSE /\ row_index = Len(before)
         /\ Len(after) = Len(before) + 1
         /\ after[Len(after)] =
              _write_row(<<Cleared(before[Len(before)])>>, 0, header_map, last.control)[1]

\* the data rows other than the target are as they were
OthersKept(before, after, row_index) ==
    \A r \in PyRange(DefaultHeaderRow, Len(before)) : r # row_index => after[r + 1] = before[r + 1]

TargetChosen(before, after, header_map, existing_rows, res) ==
    /\ existing_rows = {} => AppendTarget(before, after, header_map, BlankRows(before, header_map), res.row_index)
    /\ (existing_rows # {} \/ BlankRows(before, header_map) # {}) => Len(after) = Len(before)
    /\ Len(after) \in {Len(before), Len(before) + 1}
    /\ res.row_index >= DefaultHeaderRow
    /\ OthersKept(before, after, res.row_index)

\* C23: when no data row matches the record's unit the write goes to the
\* lowest-indexed row after the header row whose mapped columns are all blank;
\* only if there is none is one new row appended at the end (a clone of the
\* last row with its text cleared) and used. The row count grows by at most
\* one per write, does not change when a matching or blank row exists, and no
\* row at or above the header row is the target.
C23_AppendTarget ==
    (last.called /\ ~last.result.raised) =>
        IF last.result.bytes = NoDoc
        THEN doc = last.before
        ELSE TargetChosen(TableOf(last.before), TableOf(doc), HeaderMapOf(last.before),
                          ExistingBefore(HeaderMapOf(last.before)), last.result)

\* a table without a blank row and without the unit got one row more, and the
\* record was written into it
C23_Witness ==
    /\ last.called
    /\ last.result.action = "appended"
    /\ BlankRows(TableOf(last.before), HeaderMapOf(last.before)) = {}
    /\ Len(TableOf(doc)) = Len(TableOf(last.before)) + 1
    /\ last.result.row_index = Len(TableOf(last.before))
    /\ FieldText(TableOf(doc), HeaderMapOf(doc), last.result.row_index, "SITE") = last.control.homesite

\* ------------------------------------------------------------------------
\* Properties of the header row and of the end of the data rows
\* ------------------------------------------------------------------------

\* a write_to_template call was made with a declared header row
WroteAt == call.fn = "write_to_template"

\* the 1-based number denotes a row of the table
DenotesRow(table, header_row) == header_row \in 1..Len(table)

\* the call failed as out of range: an error returned, no exception, no bytes
OutOfRangeError(res) ==
    /\ ~res.raised
    /\ res.bytes = NoDoc
    /\ res.error = "header row beyond table size"

\* the declared row was left as it was and the target lies below it
HeaderRowKept(before, after, header_row, res) ==
    /\ after[header_row] = before[header_row]
    /\ res.row_index >= header_row

\* C26: write_to_template fails with a header-row-out-of-range error and
\* returns no modified document whenever the declared 1-based header row does
\* not denote an existing row of the located table, both when it exceeds the
\* row count and when it is less than 1; a write that succeeds has used the
\* declared row as header and not written it as a data row.
C26_HeaderRowOutOfRange ==
    WroteAt =>
        IF DenotesRow(call.before[1], call.header_row)
        THEN call.result.bytes # NoDoc
               => HeaderRowKept(call.before[1], call.result.bytes[1], call.header_row, call.result)
        ELSE OutOfRangeError(call.result)

\* the 0-based indices of the totals rows of a table
TotalsRows(table) ==
    { r \in PyRange(0, Len(table)) : Upper(Strip(table[r + 1][1].text)) = Upper(tTotal) }

\* the written table still ends with its totals row and the target lies
\* above it
EndsAtTotals(after, res) ==
    /\ Len(after) - 1 \in TotalsRows(after)
    /\ res.row_index < Len(after) - 1

\* no snapshot read from the document is the totals row
NoTotalsSnapshot(rows) ==
    \A i \in DOMAIN rows : Upper(rows[i].homesite) # Upper(tTotal)

\* C25: the data rows of a table end at a totals row: the writer never selects
\* the totals row or a row after it as a match or blank target and never
\* appends a new row after it, and the reader never returns the totals row as
\* a unit snapshot.
C25_TotalsRowExcluded ==
    (WroteAt /\ call.header_row = DefaultHeaderRow /\ TotalsRows(call.before[1]) # {}) =>
        /\ NoTotalsSnapshot(read_final_docx_data(call.before, DefaultHeaderRow))
        /\ call.result.bytes # NoDoc =>
              /\ EndsAtTotals(call.result.bytes[1], call.result)
              /\ NoTotalsSnapshot(read_final_docx_data(call.result.bytes, DefaultHeaderRow))

\* ------------------------------------------------------------------------
\* Properties of a regenerated file: its markers and its staleness
\* ------------------------------------------------------------------------

\* the marker tokens of the descriptors of a file that its pristine template
\* holds
MarkersOf(file_name) ==
    { MappingRows[i].invisible_code : i \in SeedRows(MappingRows, file_name) }

MarkersIn(bytes, file_name) ==
    { token \in MarkersOf(file_name) : VerbatimCells(bytes, token) # {} }

HoldsMarkers(bytes, file_name) ==
    MarkersIn(bytes, file_name) = MarkersIn(templates[file_name], file_name)

HoldsNoMarker(bytes, file_name) == MarkersIn(bytes, file_name) = {}

\* the document after the first k writes of the regeneration of a file
AfterWrites(file_name, items, k) ==
    WriteAll(SubSeq(items, 1, k), Acc(templates[file_name], 0, 0, FALSE)).bytes

\* every marker is in the document before each write of the regeneration
MarkersKept(file_name, items) ==
    \A k \in 0..(Len(items) - 1) : HoldsMarkers(AfterWrites(file_name, items, k), file_name)

\* C24: during the regeneration of a template file every marker token of the
\* file stays in the document until the last record of the last table group
\* has been written, so that each later group's table is located; the
\* document handed to export and storage holds no marker token of any
\* descriptor of the file.
C24_MarkersKeptThenStripped ==
    \A f \in Files :
        outcome[f].status = "uploaded" =>
            /\ MarkersKept(f, ItemsOf(f))
            /\ HoldsNoMarker(finals[f], f)

\* the file was regenerated in this run with every Record written
Regenerated(file_name) ==
    /\ outcome[file_name].status = "uploaded"
    /\ outcome[file_name].errors = 0
    /\ outcome[file_name].rows_written = Len(ItemsOf(file_name))

\* the staleness check of Steps B and C on a rendered document
CheckedAgain(file_name, rendered) ==
    FileRun(MappingRows, control_rows, file_name, "none", templates[file_name],
            rendered, certs, allow_uncertified_templates, dry_run).status

\* C27: reconciliation reaches a fixpoint: after a regeneration in which
\* every Record was written, the staleness check run again with the same
\* Records against the regenerated document finds the file not stale and
\* skips it, also for Records whose price is an unformatted number or whose
\* ready_by is not in MM/DD/YYYY form.
C27_RegenerationFixpoint ==
    \A f \in Files :
        Regenerated(f) => CheckedAgain(f, finals[f]) = "in_sync"

\* ------------------------------------------------------------------------
\* Properties of the marking of a PDF as processed and of a dry run
\* ------------------------------------------------------------------------

\* the step is a run of process_release_pdf
ReleaseRun == runs' = runs + 1 /\ released'.fn = "process_release_pdf"

\* the step marks the PDF as processed: it adds or changes the manifest entry
\* under the PDF's id, or sets the processed property on the file
MarksProcessed(pdf_id) ==
    \/ manifest'[PdfKey(pdf_id)] # manifest[PdfKey(pdf_id)]
    \/ pdf_files'[pdf_id].processed /\ ~pdf_files[pdf_id].processed

\* a template output of the run was uploaded, or was found unchanged
SomeOutput(done) ==
    \E i \in DOMAIN done : done[i].status \in {"uploaded", "skipped_unchanged"}

\* the export or the upload failed for every template of the run
AllFailed(done) ==
    /\ done # <<>>
    /\ \A i \in DOMAIN done : done[i].status \in {"export_failed", "upload_failed"}

StaysUnprocessed(pdf_id) ==
    ~is_already_processed(pdf_files[pdf_id], manifest, pdf_id)
        => ~is_already_processed(pdf_files'[pdf_id], manifest', pdf_id)

\* C28: a run of process_release_pdf marks the PDF as processed (manifest
\* entry under its id, processed property on the file) only if one of its
\* template outputs was uploaded or found unchanged in that run; when the
\* export or upload failed for every template, a PDF that was not processed
\* stays so for is_already_processed.
C28_MarkedOnlyAfterOutput ==
    [][ReleaseRun =>
          /\ MarksProcessed(released'.pdf.id) => SomeOutput(released'.done)
          /\ AllFailed(released'.done) => StaysUnprocessed(released'.pdf.id)]_vars

\* C30: with dry_run enabled a run of process_release_pdf or
\* process_single_pdf changes nothing in file storage (the final folder, the
\* uploads made, the folder and properties of the PDFs) and no manifest entry,
\* on any path.
C30_DryRunChangesNothing ==
    [][cfg.dry_run => UNCHANGED <<final_folder, uploads, pdf_files, manifest>>]_vars

\* ------------------------------------------------------------------------
\* Specifications
\* ------------------------------------------------------------------------

WriterStart == WriterInit /\ LockIdle /\ SyncIdle /\ CallIdle /\ ReleaseIdle
AcquireInit == WriterIdle /\ LockIdle /\ SyncIdle /\ CallIdle /\ ReleaseIdle
SyncInit == WriterIdle /\ LockIdle /\ SyncSetup /\ CallIdle /\ ReleaseIdle
LockInit == WriterIdle /\ LockIdle /\ SyncIdle /\ CallIdle /\ ReleaseIdle
LocateInit == WriterIdle /\ LockIdle /\ SyncIdle /\ CallIdle /\ ReleaseIdle
ReleaseInit == WriterIdle /\ LockIdle /\ SyncIdle /\ CallIdle /\ ReleaseSetup
CallsInit == WriterIdle /\ LockIdle /\ SyncIdle /\ CallIdle /\ ReleaseIdle

SpecWriter == WriterStart /\ [][WriterNext]_vars
SpecAcquire == AcquireInit /\ [][AcquireNext]_vars
SpecSync == SyncInit /\ [][SyncNext]_vars
SpecLock == LockInit /\ [][LockNext]_vars
SpecLocate == LocateInit /\ [][LocateNext]_vars
SpecRelease == ReleaseInit /\ [][ReleaseNext]_vars
SpecCalls == CallsInit /\ [][CallsNext]_vars

=============================================================================
